---------------------------- MODULE Spec2Model ----------------------------
(***************************************************************************)
(* A model of the schedule-PDF pipeline of aarushth/countdown:             *)
(*   - PDFProcessor.parseDateRange      (document name -> column dates)    *)
(*   - PDFProcessor.parsePeriodsFromText, stream-mode (scraper.ts)         *)
(*   - PDFProcessor.testOnePDF          (stream-mode entry assembly)       *)
(*   - PDFProcessor.savePeriodsToDatabase (layout-mode duplicate           *)
(*     resolution and entry assembly)                                      *)
(*                                                                         *)
(* Strings are sequences of one-character strings; the character U+2013    *)
(* (en dash) is written "ndash".  A calendar date is the number of days    *)
(* since 2025-01-01 (day 0, a Wednesday); an instant is a record           *)
(* [day, hour, minute].                                                    *)
(***************************************************************************)
EXTENDS Integers, Sequences, FiniteSets, TLC

VARIABLES
    mode,         \* which driver runs: "dates", "stream" or "layout"
    pc,           \* position of the driver
    doc,          \* how the document name was composed (the input's description)
    filename,     \* the document name, a string
    dates,        \* the Date[] returned by parseDateRange
    text,         \* stream-mode: the extracted text
    dayPeriods,   \* stream-mode: the roster of each day that has one
    periodDays,   \* stream-mode: the days of each period 1..6
    allMatches,   \* the occurrences found (stream-mode and layout-mode)
    nextDayIndex, \* stream-mode: the cursor of each period
    scanned,      \* stream-mode: how many occurrences the scan has looked at
    assignedDay,  \* stream-mode: the day of the occurrence looked at last, -1 if none
    result,       \* stream-mode: the Map from "period-day" to ParsedPeriod
    periods,      \* stream-mode: the sorted ParsedPeriod[] returned
    entries,      \* the schedule entries assembled
    db,           \* the rows of the schedule table
    run,          \* how many times the driver has been started
    firstEntries, \* the entries of the first run
    now,          \* the wall clock: the year in which the driver runs
    textItems,    \* layout-mode: the positioned text fragments of the document
    files,        \* the batch driver: the documents of the downloads folder
    fileIndex,    \* the batch driver: how many documents the loop has taken
    attempted,    \* the batch driver: the documents processPDF was called on
    webPage,      \* the downloader: the schedule page as the server answers
    links,        \* the downloader: the PDFLink[] that extractPDFLinks returned
    linkIndex,    \* the downloader: how many links the loop has taken
    tried,        \* the downloader: the links downloadPDF was called on
    downloadedFiles \* the downloader: the file paths pushed so far

-----------------------------------------------------------------------------
(* Characters and strings                                                  *)

UpperSeq == <<"A","B","C","D","E","F","G","H","I","J","K","L","M",
              "N","O","P","Q","R","S","T","U","V","W","X","Y","Z">>
LowerSeq == <<"a","b","c","d","e","f","g","h","i","j","k","l","m",
              "n","o","p","q","r","s","t","u","v","w","x","y","z">>
DigitSeq == <<"0","1","2","3","4","5","6","7","8","9">>

Range(s) == {s[i] : i \in DOMAIN s}

UpperChars == Range(UpperSeq)
LowerChars == Range(LowerSeq)
DigitChars == Range(DigitSeq)
\* \w of a regular expression
WordChars  == UpperChars \cup LowerChars \cup DigitChars \cup {"_"}

IsDigit(c) == c \in DigitChars
IsWordChar(c) == c \in WordChars
IsSpace(c) == c \in {" ", "\n", "\t"}

ToLowerChar(c) ==
    IF c \in UpperChars
    THEN LowerSeq[CHOOSE i \in DOMAIN UpperSeq : UpperSeq[i] = c]
    ELSE c

ToLowerCase(s) == [i \in DOMAIN s |-> ToLowerChar(s[i])]

DigitVal(c) == (CHOOSE i \in DOMAIN DigitSeq : DigitSeq[i] = c) - 1

\* whether string t occurs in s at (1-based) position i
MatchesAt(s, i, t) ==
    /\ i + Len(t) - 1 <= Len(s)
    /\ \A k \in 1..Len(t) : s[i + k - 1] = t[k]

\* parseInt: the value of the leading decimal digits (the strings it is given
\* here always start with a digit)
RECURSIVE ParseIntFrom(_, _, _)
ParseIntFrom(s, i, acc) ==
    IF i > Len(s) \/ ~IsDigit(s[i]) THEN acc
    ELSE ParseIntFrom(s, i + 1, acc * 10 + DigitVal(s[i]))

ParseInt(s) == ParseIntFrom(s, 1, 0)

\* String(n) for n >= 0
RECURSIVE DigitsOf(_)
DigitsOf(n) ==
    IF n < 10 THEN <<DigitSeq[n + 1]>>
    ELSE DigitsOf(n \div 10) \o <<DigitSeq[(n % 10) + 1]>>

-----------------------------------------------------------------------------
(* parseDateRange: the text part                                           *)

\* filename.replace(/\.pdf$/i, "")
StripPdf(s) ==
    IF Len(s) >= 4 /\ ToLowerCase(SubSeq(s, Len(s) - 3, Len(s))) = <<".", "p", "d", "f">>
    THEN SubSeq(s, 1, Len(s) - 4)
    ELSE s

RECURSIVE TrimLeft(_)
TrimLeft(s) == IF s # <<>> /\ IsSpace(Head(s)) THEN TrimLeft(Tail(s)) ELSE s

RECURSIVE TrimRight(_)
TrimRight(s) ==
    IF s # <<>> /\ IsSpace(s[Len(s)]) THEN TrimRight(SubSeq(s, 1, Len(s) - 1)) ELSE s

\* name.replace(/[-–]/g, "-").replace(/:/g, "").trim()
CleanName(name) ==
    LET dashed == [i \in DOMAIN name |-> IF name[i] \in {"-", "ndash"} THEN "-" ELSE name[i]]
        uncolon == SelectSeq(dashed, LAMBDA c : c # ":")
    IN  TrimRight(TrimLeft(uncolon))

\* the keys of the months table, in the order of monthPattern's alternation;
\* months[key] is the position in this list minus one
MonthKeys == <<
    <<"j","a","n","u","a","r","y">>,
    <<"f","e","b","r","u","a","r","y">>,
    <<"m","a","r","c","h">>,
    <<"a","p","r","i","l">>,
    <<"m","a","y">>,
    <<"j","u","n","e">>,
    <<"j","u","l","y">>,
    <<"a","u","g","u","s","t">>,
    <<"s","e","p","t","e","m","b","e","r">>,
    <<"o","c","t","o","b","e","r">>,
    <<"n","o","v","e","m","b","e","r">>,
    <<"d","e","c","e","m","b","e","r">> >>

\* months[match.toLowerCase()]
MonthNumber(str) ==
    (CHOOSE k \in DOMAIN MonthKeys : MonthKeys[k] = ToLowerCase(str)) - 1

\* \b at the gap before position i of s (positions 1..Len(s)+1)
WordBoundary(s, i) ==
    LET before == i > 1 /\ IsWordChar(s[i - 1])
        after  == i <= Len(s) /\ IsWordChar(s[i])
    IN  before # after

\* the month keys that monthPattern (flags gi) matches at position i
MonthKeysAt(s, i) ==
    IF ~WordBoundary(s, i) THEN {}
    ELSE {k \in DOMAIN MonthKeys :
            /\ i + Len(MonthKeys[k]) - 1 <= Len(s)
            /\ ToLowerChar(s[i]) = MonthKeys[k][1]
            /\ ToLowerCase(SubSeq(s, i, i + Len(MonthKeys[k]) - 1)) = MonthKeys[k]
            /\ WordBoundary(s, i + Len(MonthKeys[k]))}

\* cleanName.match(monthPattern) || []: the matched substrings, left to right
RECURSIVE MonthMatchesFrom(_, _)
MonthMatchesFrom(s, i) ==
    IF i > Len(s) THEN <<>>
    ELSE LET here == MonthKeysAt(s, i)
         IN  IF here = {} THEN MonthMatchesFrom(s, i + 1)
             ELSE LET k == CHOOSE x \in here : \A y \in here : x <= y
                      n == Len(MonthKeys[k])
                  IN  <<SubSeq(s, i, i + n - 1)>> \o MonthMatchesFrom(s, i + n)

\* a plausible slip: the matches taken from the right
MonthMatchesReversed(s) ==
    LET found == MonthMatchesFrom(s, 1)
    IN  [i \in DOMAIN found |-> found[Len(found) + 1 - i]]

MonthMatches(s) == MonthMatchesFrom(s, 1)

OrdinalSuffixes == {<<"s","t">>, <<"n","d">>, <<"r","d">>, <<"t","h">>}

\* the length of the match of /(\d{1,2})(?:st|nd|rd|th)?/ at position i, 0 if none
DayMatchLen(s, i) ==
    IF i > Len(s) \/ ~IsDigit(s[i]) THEN 0
    ELSE LET nd == IF i + 1 <= Len(s) /\ IsDigit(s[i + 1]) THEN 2 ELSE 1
         IN  IF \E suf \in OrdinalSuffixes : MatchesAt(s, i + nd, suf)
             THEN nd + 2 ELSE nd

\* cleanName.match(dayPattern) || []
RECURSIVE DayMatchesFrom(_, _)
DayMatchesFrom(s, i) ==
    IF i > Len(s) THEN <<>>
    ELSE LET n == DayMatchLen(s, i)
         IN  IF n = 0 THEN DayMatchesFrom(s, i + 1)
             ELSE <<SubSeq(s, i, i + n - 1)>> \o DayMatchesFrom(s, i + n)

DayMatches(s) == DayMatchesFrom(s, 1)

-----------------------------------------------------------------------------
(* parseDateRange: the calendar part                                       *)

\* days before the first of month m (0 = January) in a common year; 2025 and
\* 2026 are both common years
DaysBeforeMonth == <<0, 31, 59, 90, 120, 151, 181, 212, 243, 273, 304, 334>>

DaysInMonth == <<31, 28, 31, 30, 31, 30, 31, 31, 30, 31, 30, 31>>

\* new Date(year, month, day): local midnight; a day outside the month rolls
\* over into the neighbouring months
MakeDate(year, month, day) ==
    (year - 2025) * 365 + DaysBeforeMonth[month + 1] + (day - 1)

\* Date.getDay(): 0 = Sunday ... 6 = Saturday
GetDay(d) == (d + 3) % 7

\* a plausible slip: the rollover put one month early
GetYearOffByOne(month) == IF month >= 6 THEN 2025 ELSE 2026

\* const getYear = (month) => (month >= 7 ? 2025 : 2026)
GetYear(month) == IF month >= 7 THEN 2025 ELSE 2026

\* a plausible slip: the loop stops one short of the end date
WalkContinuesExclusive(currentDate, endDate, acc) ==
    currentDate < endDate /\ Len(acc) < 5

\* the loop condition: currentDate <= endDate && dates.length < 5
WalkContinues(currentDate, endDate, acc) ==
    currentDate <= endDate /\ Len(acc) < 5

\* a plausible slip: Saturday taken for a weekday
IsWeekdayWithSaturday(d) == GetDay(d) >= 1 /\ GetDay(d) <= 6

\* dayOfWeek >= 1 && dayOfWeek <= 5
IsWeekday(d) == GetDay(d) >= 1 /\ GetDay(d) <= 5

\* the while loop of parseDateRange
RECURSIVE WalkDates(_, _, _)
WalkDates(currentDate, endDate, acc) ==
    IF ~WalkContinues(currentDate, endDate, acc) THEN acc
    ELSE WalkDates(currentDate + 1, endDate,
                   IF IsWeekday(currentDate) THEN Append(acc, currentDate) ELSE acc)

\* monthMatches.length === 0 || dayMatches.length < 2
Unparseable(monthMatches, dayMatches) ==
    Len(monthMatches) = 0 \/ Len(dayMatches) < 2

ParseDateRange(name) ==
    LET cleanName    == CleanName(StripPdf(name))
        monthMatches == MonthMatches(cleanName)
        dayMatches   == DayMatches(cleanName)
    IN  IF Unparseable(monthMatches, dayMatches) THEN <<>>
        ELSE LET startMonth == MonthNumber(monthMatches[1])
                 endMonth   == IF Len(monthMatches) > 1
                               THEN MonthNumber(monthMatches[2]) ELSE startMonth
                 startDay   == ParseInt(dayMatches[1])
                 endDay     == ParseInt(dayMatches[2])
             IN  WalkDates(MakeDate(GetYear(startMonth), startMonth, startDay),
                           MakeDate(GetYear(endMonth), endMonth, endDay),
                           <<>>)

-----------------------------------------------------------------------------
(* Helpers for JavaScript values                                           *)

\* str.split(sep) for a one-character separator
RECURSIVE SplitFrom(_, _, _, _)
SplitFrom(s, sep, i, cur) ==
    IF i > Len(s) THEN <<cur>>
    ELSE IF s[i] = sep THEN <<cur>> \o SplitFrom(s, sep, i + 1, <<>>)
    ELSE SplitFrom(s, sep, i + 1, Append(cur, s[i]))

Split(s, sep) == SplitFrom(s, sep, 1, <<>>)

AllDigits(s) == \A i \in DOMAIN s : IsDigit(s[i])

\* Number(str) of a string of digits; Number("") is 0.  IsNumber tells the
\* strings for which Number is not NaN.
IsNumber(s) == AllDigits(s)
Number(s) == ParseIntFrom(s, 1, 0)

\* parseInt(str) with its optional sign; HasInt tells the strings for which
\* parseInt is not NaN
HasInt(s) ==
    \/ s # <<>> /\ IsDigit(s[1])
    \/ Len(s) >= 2 /\ s[1] = "-" /\ IsDigit(s[2])

ParseSignedInt(s) ==
    IF s[1] = "-" THEN 0 - ParseIntFrom(s, 2, 0) ELSE ParseIntFrom(s, 1, 0)

\* String(n) for any integer n
FormatInt(n) == IF n < 0 THEN <<"-">> \o DigitsOf(0 - n) ELSE DigitsOf(n)

\* a Map with insertion order, as a sequence of [key, value]: has, get, set
MapHas(m, k) == \E i \in DOMAIN m : m[i].key = k

MapGet(m, k) == m[CHOOSE i \in DOMAIN m : m[i].key = k].value

MapSet(m, k, v) ==
    IF MapHas(m, k)
    THEN [i \in DOMAIN m |-> IF m[i].key = k THEN [key |-> k, value |-> v] ELSE m[i]]
    ELSE Append(m, [key |-> k, value |-> v])

MapValues(m) == [i \in DOMAIN m |-> m[i].value]

\* Array.prototype.sort with a comparator that orders the elements
\* consistently; the sort is stable, so s[i] comes behind the elements the
\* comparator puts before it and the equal ones that stood before it
Sort(s, Cmp(_, _)) ==
    LET pos(i) == 1 + Cardinality({j \in DOMAIN s :
                        \/ Cmp(s[j], s[i]) < 0
                        \/ Cmp(s[j], s[i]) = 0 /\ j < i})
    IN  [k \in DOMAIN s |-> s[CHOOSE i \in DOMAIN s : pos(i) = k]]

-----------------------------------------------------------------------------
(* Stream-mode parsePeriodsFromText (scraper.ts)                           *)
(*                                                                         *)
(* The text is a sequence of items, an item's offset being its position    *)
(* minus one:                                                              *)
(*   "header"  a weekday name, a line break and a roster line [\d,\-]+     *)
(*   "period"  "Period <numText><sep><startTime> - <endTime> (<digits>)"   *)
(*   "A Lunch", "B Lunch"  a lunch marker                                  *)

DayIndexes == <<0, 1, 2, 3, 4>>

Str_Period == <<"P","e","r","i","o","d"," ">>

\* the periods a roster line gives a day
RosterPeriods(periodsStr) ==
    IF "-" \in Range(periodsStr) /\ "," \notin Range(periodsStr)
    THEN LET parts == Split(periodsStr, "-")
             start == Number(parts[1])
             end   == Number(parts[2])
         IN  {q \in start..end : TRUE}
    ELSE LET parts == Split(periodsStr, ",")
         IN  {ParseSignedInt(parts[i]) : i \in {j \in DOMAIN parts : HasInt(parts[j])}}

\* text.match(dayPattern): the first header of day dayIdx, 0 if there is none
FirstHeader(txt, dayIdx) ==
    LET at == {i \in DOMAIN txt : txt[i].kind = "header" /\ txt[i].day = dayIdx}
    IN  IF at = {} THEN 0 ELSE CHOOSE i \in at : \A j \in at : i <= j

\* dayPeriods: the days that have a roster, each with its set of periods
DayPeriodsOf(txt) ==
    [d \in {x \in Range(DayIndexes) : FirstHeader(txt, x) # 0} |->
        RosterPeriods(txt[FirstHeader(txt, d)].roster)]

\* a plausible slip: every weekday expected for every period, roster or not
PeriodDaysEveryDay(dp) == [q \in 1..6 |-> DayIndexes]

\* periodDays: for p = 1..6 the days, in order, whose roster has p
PeriodDaysOf(dp) ==
    [q \in 1..6 |-> SelectSeq(DayIndexes, LAMBDA d : d \in DOMAIN dp /\ q \in dp[d])]

\* allMatches: every match of periodPattern, in text order
RECURSIVE AllMatchesFrom(_, _)
AllMatchesFrom(txt, i) ==
    IF i > Len(txt) THEN <<>>
    ELSE IF txt[i].kind = "period"
    THEN <<[periodNum |-> ParseInt(txt[i].numText),
            startTime |-> txt[i].startTime,
            endTime   |-> txt[i].endTime,
            index     |-> i - 1]>> \o AllMatchesFrom(txt, i + 1)
    ELSE AllMatchesFrom(txt, i + 1)

AllMatchesOf(txt) == AllMatchesFrom(txt, 1)

\* a plausible slip: the cursors kept from one call to the next
KeptNextDayIndex == nextDayIndex

\* nextDayIndex as the loop over p = 1..6 leaves it
FreshNextDayIndex == [q \in 1..6 |-> 0]

\* a Map from numbers: get(k) || 0, and set
GetOrZero(f, k) == IF k \in DOMAIN f THEN f[k] ELSE 0

Put(f, k, v) == [x \in DOMAIN f \cup {k} |-> IF x = k THEN v ELSE f[x]]

\* periodDays.get(periodNum) || []
DaysForPeriod(pd, periodNum) == IF periodNum \in DOMAIN pd THEN pd[periodNum] ELSE <<>>

\* a plausible slip: no wrap, an exhausted cursor stays where it is
CursorNoWrap(ndi, periodNum, len) == ndi

\* if (dayIndexPtr >= daysForThisPeriod.length) nextDayIndex.set(periodNum, 0)
CursorWrapped(ndi, periodNum, len) ==
    IF GetOrZero(ndi, periodNum) >= len THEN Put(ndi, periodNum, 0) ELSE ndi

\* textBefore.lastIndexOf("A Lunch") and ("B Lunch"): the offset, or -1
LastLunch(txt, index, which) ==
    LET at == {i \in 1..index : txt[i].kind = which}
    IN  IF at = {} THEN -1 ELSE (CHOOSE i \in at : \A j \in at : j <= i) - 1

\* textBefore.lastIndexOf(`Period ${periodNum}\n${startTime}`): the offset, or -1
LastPeriodLine(txt, index, periodNum, startTime) ==
    LET at == {i \in 1..index :
                  /\ txt[i].kind = "period"
                  /\ txt[i].numText = FormatInt(periodNum)
                  /\ txt[i].sep = "\n"
                  /\ txt[i].startTime = startTime}
    IN  IF at = {} THEN -1 ELSE (CHOOSE i \in at : \A j \in at : j <= i) - 1

\* `${periodNum}-${assignedDay}`
ResultKey(periodNum, toDay) ==
    FormatInt(periodNum) \o <<"-">> \o FormatInt(toDay)

ParsedPeriodOf(entry, toDay) ==
    [name        |-> Str_Period \o FormatInt(entry.periodNum),
     startTime   |-> entry.startTime,
     endTime     |-> entry.endTime,
     columnIndex |-> toDay]

\* a plausible slip: every occurrence is stored under a key of its own
ResultAppended(res, txt, entry, toDay) ==
    Append(res, [key   |-> ResultKey(entry.periodNum, toDay) \o <<"#">>
                               \o FormatInt(entry.index),
                 value |-> ParsedPeriodOf(entry, toDay)])

\* the lunch tie-break: what result is after the occurrence entry, assigned to
\* day toDay, has been looked at
ResultAfter(res, txt, entry, toDay) ==
    LET key        == ResultKey(entry.periodNum, toDay)
        lastALunch == LastLunch(txt, entry.index, "A Lunch")
        lastBLunch == LastLunch(txt, entry.index, "B Lunch")
        has        == MapHas(res, key)
        lastLine   == LastPeriodLine(txt, entry.index, entry.periodNum,
                                     MapGet(res, key).startTime)
        isAfterALunch == has /\ lastALunch > lastLine
        isAfterBLunch == has /\ lastBLunch > lastLine
    IN  IF ~has THEN MapSet(res, key, ParsedPeriodOf(entry, toDay))
        ELSE IF entry.periodNum = 3 /\ isAfterBLunch
        THEN MapSet(res, key, ParsedPeriodOf(entry, toDay))
        ELSE IF entry.periodNum = 4 /\ isAfterALunch
        THEN MapSet(res, key, ParsedPeriodOf(entry, toDay))
        ELSE res

\* name.replace("Period ", "") and parseInt
NameNumber(name) ==
    IF MatchesAt(name, 1, Str_Period)
    THEN ParseInt(SubSeq(name, Len(Str_Period) + 1, Len(name)))
    ELSE ParseInt(name)

\* the comparator of periods.sort: by day, then by period
ComparePeriods(a, b) ==
    IF a.columnIndex # b.columnIndex THEN a.columnIndex - b.columnIndex
    ELSE NameNumber(a.name) - NameNumber(b.name)

-----------------------------------------------------------------------------
(* Entry assembly                                                          *)

\* Date.setHours(hours, minutes, 0, 0) on local midnight of day: hours and
\* minutes past the day's end carry over
SetHours(day, hours, minutes) ==
    LET total == hours * 60 + minutes
    IN  [day    |-> day + total \div 1440,
         hour   |-> (total % 1440) \div 60,
         minute |-> total % 60]

\* Date.getTime(), in minutes
GetTime(t) == t.day * 1440 + t.hour * 60 + t.minute

\* a plausible slip: 7 o'clock taken for an afternoon hour too
AdjustedHourSevenIncluded(hours) == IF hours <= 7 THEN hours + 12 ELSE hours

\* hours < 7 ? hours + 12 : hours
AdjustedHour(hours) == IF hours < 7 THEN hours + 12 ELSE hours

\* timeStr.split(":").map(Number), the hour adjusted, put on the date
InstantOf(timeStr, date) ==
    LET parts == Split(timeStr, ":")
    IN  SetHours(date, AdjustedHour(Number(parts[1])), Number(parts[2]))

\* a plausible slip: the last date is taken to be past the end
HasDateButLast(ds, colIdx) == colIdx >= 0 /\ colIdx + 1 < Len(ds)

\* date = dates[colIdx] is a Date: colIdx is an index of dates
HasDate(ds, colIdx) == colIdx + 1 \in DOMAIN ds

\* the loop of testOnePDF over the periods, from the i-th on
RECURSIVE StreamEntriesFrom(_, _, _)
StreamEntriesFrom(ps, ds, i) ==
    IF i > Len(ps) THEN <<>>
    ELSE IF ~HasDate(ds, ps[i].columnIndex)
    THEN StreamEntriesFrom(ps, ds, i + 1)
    ELSE <<[name      |-> ps[i].name,
            startTime |-> InstantOf(ps[i].startTime, ds[ps[i].columnIndex + 1]),
            endTime   |-> InstantOf(ps[i].endTime, ds[ps[i].columnIndex + 1])]>>
             \o StreamEntriesFrom(ps, ds, i + 1)

StreamEntries(ps, ds) == StreamEntriesFrom(ps, ds, 1)

-----------------------------------------------------------------------------
(* Layout-mode parsePeriodsFromText: from the fragments to the occurrences *)

\* dayNames
DayNames == <<
    <<"M","o","n","d","a","y">>,
    <<"T","u","e","s","d","a","y">>,
    <<"W","e","d","n","e","s","d","a","y">>,
    <<"T","h","u","r","s","d","a","y">>,
    <<"F","r","i","d","a","y">> >>

\* s.includes(t)
Includes(s, t) == \E i \in 1..(Len(s) + 1) : MatchesAt(s, i, t)

\* dayHeaders: the fragments whose text includes a day name, in their order
DayHeaders(items) ==
    SelectSeq(items, LAMBDA t : \E d \in DOMAIN DayNames : Includes(t.text, DayNames[d]))

\* the comparator of the sorts by x
CompareX(a, b) == a.x - b.x

\* columnXPositions: the headers' x-positions, left to right
ColumnXPositions(items) ==
    LET sorted == Sort(DayHeaders(items), CompareX)
    IN  [i \in DOMAIN sorted |-> sorted[i].x]

\* the for loop of getColumnIndex from column i (from 0) down: the column is
\* returned when x >= prevBoundary, which is -Infinity for column 0; return 0
\* after the loop
RECURSIVE ColumnFrom(_, _, _)
ColumnFrom(cols, x, i) ==
    IF i < 0 THEN 0
    ELSE IF i = 0 \/ 2 * x >= cols[i] + cols[i + 1] THEN i
    ELSE ColumnFrom(cols, x, i - 1)

\* a plausible slip: a column taken to begin at its header, not at the midpoint
GetColumnIndexFromHeader(cols, x) ==
    IF Len(cols) = 0 THEN -1
    ELSE LET fits == {i \in 0..(Len(cols) - 1) : i = 0 \/ x >= cols[i + 1]}
         IN  CHOOSE i \in fits : \A j \in fits : j <= i

\* getColumnIndex(x): -1 without columns, else the loop from the last column
GetColumnIndex(cols, x) ==
    IF Len(cols) = 0 THEN -1 ELSE ColumnFrom(cols, x, Len(cols) - 1)

\* how many characters of s from position i on are white space
RECURSIVE SpacesAt(_, _)
SpacesAt(s, i) ==
    IF i <= Len(s) /\ IsSpace(s[i]) THEN 1 + SpacesAt(s, i + 1) ELSE 0

\* how many characters of s from position i on are digits
RECURSIVE DigitsAt(_, _)
DigitsAt(s, i) ==
    IF i <= Len(s) /\ IsDigit(s[i]) THEN 1 + DigitsAt(s, i + 1) ELSE 0

\* the length of the match of /Period\s+\d+/i at position i of s, 0 if none
PeriodLabelAt(s, i) ==
    LET word == <<"p","e","r","i","o","d">>
        sp   == SpacesAt(s, i + 6)
        dg   == DigitsAt(s, i + 6 + sp)
    IN  IF i + 5 <= Len(s) /\ ToLowerCase(SubSeq(s, i, i + 5)) = word
           /\ sp >= 1 /\ dg >= 1
        THEN 6 + sp + dg ELSE 0

\* /^Period\s+\d+$/i.test(item.text.trim())
IsPeriodLabel(str) ==
    LET t == TrimRight(TrimLeft(str))
    IN  PeriodLabelAt(t, 1) = Len(t) /\ Len(t) > 0

\* parseInt of the group of item.text.match(/Period\s+(\d+)/i), for a label
LabelNumber(str) ==
    LET i  == CHOOSE k \in DOMAIN str :
                  PeriodLabelAt(str, k) > 0 /\ \A j \in 1..(k - 1) : PeriodLabelAt(str, j) = 0
        sp == SpacesAt(str, i + 6)
    IN  ParseIntFrom(str, i + 6 + sp, 0)

\* the length of the match of /\d{1,2}:\d{2}/ at position i of s, 0 if none
ClockAt(s, i) ==
    LET two == i + 4 <= Len(s) /\ IsDigit(s[i]) /\ IsDigit(s[i + 1]) /\ s[i + 2] = ":"
                   /\ IsDigit(s[i + 3]) /\ IsDigit(s[i + 4])
        one == i + 3 <= Len(s) /\ IsDigit(s[i]) /\ s[i + 1] = ":"
                   /\ IsDigit(s[i + 2]) /\ IsDigit(s[i + 3])
    IN  IF two THEN 5 ELSE IF one THEN 4 ELSE 0

\* the match of /(\d{1,2}:\d{2})\s*[-–]\s*(\d{1,2}:\d{2})/ at position i of s:
\* its two groups, or none
TimeRangeAt(s, i) ==
    LET n1   == ClockAt(s, i)
        dash == i + n1 + SpacesAt(s, i + n1)
        j    == dash + 1 + SpacesAt(s, dash + 1)
        n2   == ClockAt(s, j)
    IN  IF n1 > 0 /\ dash <= Len(s) /\ s[dash] \in {"-", "ndash"} /\ n2 > 0
        THEN [found |-> TRUE, startTime |-> SubSeq(s, i, i + n1 - 1),
              endTime |-> SubSeq(s, j, j + n2 - 1)]
        ELSE [found |-> FALSE, startTime |-> <<>>, endTime |-> <<>>]

\* combinedText.match(...): the leftmost match; startTime and endTime stay ""
\* without one
TimeMatch(s) ==
    LET at == {i \in DOMAIN s : TimeRangeAt(s, i).found}
    IN  IF at = {} THEN [found |-> FALSE, startTime |-> <<>>, endTime |-> <<>>]
        ELSE TimeRangeAt(s, CHOOSE i \in at : \A j \in at : i <= j)

\* rowItems.map(t => t.text).join("")
RECURSIVE JoinTexts(_)
JoinTexts(items) ==
    IF items = <<>> THEN <<>> ELSE Head(items).text \o JoinTexts(Tail(items))

\* Math.abs(t.y - baseY) < 3 for baseY = y - 13.4, in tenths of a point
OnTimeRow(t, y) ==
    LET diff == 10 * t.y - (10 * y - 134)
    IN  diff < 30 /\ -diff < 30

\* a plausible slip: without a column the whole row is searched
CombinedTextWholeRow(items, cols, columnIndex, y) ==
    IF columnIndex + 1 \notin DOMAIN cols
    THEN JoinTexts(Sort(SelectSeq(items, LAMBDA t : OnTimeRow(t, y)), CompareX))
    ELSE LET colStart == cols[columnIndex + 1] - 40
             colEnd   == IF columnIndex < Len(cols) - 1
                         THEN cols[columnIndex + 2] - 10 ELSE 600
         IN  JoinTexts(Sort(SelectSeq(items, LAMBDA t :
                                OnTimeRow(t, y) /\ t.x >= colStart /\ t.x <= colEnd),
                            CompareX))

\* combineRowItems(textItems, periodItem.y - 13.4, colStart, colEnd): colStart
\* is NaN, and nothing is within it, when columnIndex names no column
CombinedText(items, cols, columnIndex, y) ==
    IF columnIndex + 1 \notin DOMAIN cols THEN <<>>
    ELSE LET colStart == cols[columnIndex + 1] - 40
             colEnd   == IF columnIndex < Len(cols) - 1
                         THEN cols[columnIndex + 2] - 10 ELSE 600
         IN  JoinTexts(Sort(SelectSeq(items, LAMBDA t :
                                OnTimeRow(t, y) /\ t.x >= colStart /\ t.x <= colEnd),
                            CompareX))

\* the occurrence pushed for a label
MatchOfLabel(items, cols, periodItem) ==
    LET columnIndex == GetColumnIndex(cols, periodItem.x)
        timeMatch   == TimeMatch(CombinedText(items, cols, columnIndex, periodItem.y))
    IN  [periodNum   |-> LabelNumber(periodItem.text),
         startTime   |-> timeMatch.startTime,
         endTime     |-> timeMatch.endTime,
         x           |-> periodItem.x,
         y           |-> periodItem.y,
         columnIndex |-> columnIndex]

\* the comparator of allMatches.sort: by column, then from the top down
CompareColumnThenY(a, b) ==
    IF a.columnIndex # b.columnIndex THEN a.columnIndex - b.columnIndex
    ELSE b.y - a.y

\* what layout-mode parsePeriodsFromText returns
ParsePeriodsFromItems(items) ==
    LET cols        == ColumnXPositions(items)
        periodItems == SelectSeq(items, LAMBDA t : IsPeriodLabel(t.text))
    IN  Sort([i \in DOMAIN periodItems |-> MatchOfLabel(items, cols, periodItems[i])],
             CompareColumnThenY)

-----------------------------------------------------------------------------
(* Layout-mode savePeriodsToDatabase                                       *)

\* `${match.columnIndex}-${match.periodNum}`
GroupKey(match) == FormatInt(match.columnIndex) \o <<"-">> \o FormatInt(match.periodNum)

\* byDayAndPeriod: the occurrences grouped by key, groups and members in the
\* order in which they are met
RECURSIVE GroupFrom(_, _, _)
GroupFrom(ms, i, acc) ==
    IF i > Len(ms) THEN acc
    ELSE LET key == GroupKey(ms[i])
             old == IF MapHas(acc, key) THEN MapGet(acc, key) ELSE <<>>
         IN  GroupFrom(ms, i + 1, MapSet(acc, key, Append(old, ms[i])))

ByDayAndPeriod(ms) == GroupFrom(ms, 1, <<>>)

\* key.split("-").map(Number): the first number is colIdx, the second periodNum
KeyNumbers(key) ==
    LET parts == Split(key, "-")
    IN  [colIdx |-> Number(parts[1]), periodNum |-> Number(parts[2])]

\* the comparator of periods.sort: higher y first
CompareY(a, b) == b.y - a.y

\* a plausible slip: the first occurrence taken for every period
SelectedAlwaysFirst(periodNum, sorted) == sorted[1]

\* the duplicate rules: period 3 takes the first occurrence, period 4 the
\* second when there is one, every other period the first
Selected(periodNum, sorted) ==
    IF periodNum = 3 THEN sorted[1]
    ELSE IF periodNum = 4 /\ Len(sorted) > 1 THEN sorted[2]
    ELSE sorted[1]

\* parseTime(timeStr, baseDate)
ParseTime(timeStr, baseDate) ==
    LET parts == Split(timeStr, ":")
    IN  SetHours(baseDate, AdjustedHour(Number(parts[1])), Number(parts[2]))

\* the loop over byDayAndPeriod, from the i-th group on: the entries pushed
RECURSIVE GroupEntriesFrom(_, _, _)
GroupEntriesFrom(groups, ds, i) ==
    IF i > Len(groups) THEN <<>>
    ELSE LET nums     == KeyNumbers(groups[i].key)
             sorted   == Sort(groups[i].value, CompareY)
             selected == Selected(nums.periodNum, sorted)
         IN  IF ~HasDate(ds, nums.colIdx)
             THEN GroupEntriesFrom(groups, ds, i + 1)
             ELSE IF selected.startTime = <<>> \/ selected.endTime = <<>>
             THEN GroupEntriesFrom(groups, ds, i + 1)
             ELSE <<[name      |-> Str_Period \o FormatInt(nums.periodNum),
                     startTime |-> ParseTime(selected.startTime, ds[nums.colIdx + 1]),
                     endTime   |-> ParseTime(selected.endTime, ds[nums.colIdx + 1])]>>
                      \o GroupEntriesFrom(groups, ds, i + 1)

\* the comparator of entries.sort: by start time
CompareStart(a, b) == GetTime(a.startTime) - GetTime(b.startTime)

\* the entries savePeriodsToDatabase hands to insertMany
LayoutEntries(ms, ds) ==
    Sort(GroupEntriesFrom(ByDayAndPeriod(ms), ds, 1), CompareStart)

-----------------------------------------------------------------------------
(* Document names                                                          *)

Str_pdf   == <<".", "p", "d", "f">>
Str_PDF   == <<".", "P", "D", "F">>
Str_dash  == <<" ", "-", " ">>
Str_ndash == <<" ", "ndash", " ">>

Capitalize(s) ==
    [i \in DOMAIN s |->
        IF i = 1 /\ s[i] \in LowerChars
        THEN UpperSeq[CHOOSE k \in DOMAIN LowerSeq : LowerSeq[k] = s[i]]
        ELSE s[i]]

\* the ordinal suffix English gives day d
OrdinalOf(d) ==
    IF (d % 100) \in {11, 12, 13} THEN <<"t","h">>
    ELSE IF d % 10 = 1 THEN <<"s","t">>
    ELSE IF d % 10 = 2 THEN <<"n","d">>
    ELSE IF d % 10 = 3 THEN <<"r","d">>
    ELSE <<"t","h">>

MonthText(m, style) ==
    IF style = "plain" THEN Capitalize(MonthKeys[m + 1]) ELSE MonthKeys[m + 1]

DayText(d, style) ==
    IF style = "plain" THEN DigitsOf(d) \o OrdinalOf(d) ELSE DigitsOf(d)

\* "April 6th - 10th.pdf" (plain) or "april 6 <ndash> 10" (bare);
\* "April 27th - May 1st.pdf" for a range over two months
RenderName(d) ==
    IF d.form = "single"
    THEN MonthText(d.m1, d.style) \o <<" ">> \o DayText(d.d1, d.style)
            \o (IF d.style = "plain" THEN Str_dash ELSE Str_ndash)
            \o DayText(d.d2, d.style)
            \o (IF d.style = "plain" THEN Str_pdf ELSE <<>>)
    ELSE IF d.form = "cross"
    THEN MonthText(d.m1, d.style) \o <<" ">> \o DayText(d.d1, d.style)
            \o Str_dash
            \o MonthText(d.m2, d.style) \o <<" ">> \o DayText(d.d2, d.style)
            \o Str_pdf
    ELSE d.raw

April == Capitalize(MonthKeys[4])

\* names that are not of the two regular forms
RawNames == {
    \* "Ma:y 4th - 8th.pdf"
    <<"M","a",":","y"," ","4","t","h">> \o Str_dash \o <<"8","t","h">> \o Str_pdf,
    \* "April6th - 10th.pdf"
    April \o <<"6","t","h">> \o Str_dash \o <<"1","0","t","h">> \o Str_pdf,
    \* "April 2026.pdf"
    April \o <<" ","2","0","2","6">> \o Str_pdf,
    \* "April 28.pdf"
    April \o <<" ","2","8">> \o Str_pdf,
    \* "April 1:0.pdf"
    April \o <<" ","1",":","0">> \o Str_pdf,
    \* "April 6th.pdf"
    April \o <<" ","6","t","h">> \o Str_pdf,
    \* "6th - 10th.pdf"
    <<"6","t","h">> \o Str_dash \o <<"1","0","t","h">> \o Str_pdf,
    \* "Schedule.pdf"
    <<"S","c","h","e","d","u","l","e">> \o Str_pdf,
    \* " APRIL 6TH - 10TH.PDF"
    <<" ","A","P","R","I","L"," ","6","T","H">> \o Str_dash
        \o <<"1","0","T","H">> \o Str_PDF,
    \* "Mayday 6 - 10"
    <<"M","a","y","d","a","y"," ","6">> \o Str_dash \o <<"1","0">>
}

\* the day numbers tried: the ends and the middle of a month, and a day number
\* that seven of the months do not have
DayChoices == {1, 6, 10, 28, 31}

SingleDocs ==
    [form : {"single"}, m1 : 0..11, d1 : DayChoices, m2 : {0}, d2 : DayChoices,
     style : {"plain", "bare"}, raw : {<<>>}]

CrossDocs ==
    {d \in [form : {"cross"}, m1 : 0..11, d1 : {27, 28}, m2 : 0..11, d2 : {1, 3},
            style : {"plain"}, raw : {<<>>}] : d.m1 # d.m2}

RawDocs ==
    [form : {"raw"}, m1 : {0}, d1 : {0}, m2 : {0}, d2 : {0},
     style : {"plain"}, raw : RawNames]

DateDocs == SingleDocs \cup CrossDocs \cup RawDocs

-----------------------------------------------------------------------------
(* Stream-mode inputs                                                      *)

\* "h:mm", as the patterns capture it
TimeText(h, m) == DigitsOf(h) \o <<":">> \o DigitsOf(m \div 10) \o DigitsOf(m % 10)

\* the printed time ranges tried: "1:00 - 1:45" and "6:30 - 7:15"
TimeRanges == {
    [startTime |-> TimeText(1, 0),  endTime |-> TimeText(1, 45)],
    [startTime |-> TimeText(6, 30), endTime |-> TimeText(7, 15)] }

HeaderItem(d, rosterLine) ==
    [kind |-> "header", day |-> d, roster |-> rosterLine,
     numText |-> <<>>, sep |-> "", startTime |-> <<>>, endTime |-> <<>>]

PeriodItem(n, separator, tr) ==
    [kind |-> "period", day |-> 0, roster |-> <<>>,
     numText |-> DigitsOf(n), sep |-> separator,
     startTime |-> tr.startTime, endTime |-> tr.endTime]

LunchItem(which) ==
    [kind |-> which, day |-> 0, roster |-> <<>>,
     numText |-> <<>>, sep |-> "", startTime |-> <<>>, endTime |-> <<>>]

\* "1-6" and "1,3,4"
Roster_1to6 == <<"1", "-", "6">>
Roster_134  == <<"1", ",", "3", ",", "4">>

\* the headers tried: none; Monday; Monday and Tuesday with different rosters;
\* the whole week; a week without its Monday
HeaderChoices == {
    <<>>,
    <<HeaderItem(0, Roster_1to6)>>,
    <<HeaderItem(0, Roster_1to6), HeaderItem(1, Roster_134)>>,
    [i \in 1..5 |-> HeaderItem(i - 1, Roster_1to6)],
    [i \in 1..4 |-> HeaderItem(i, Roster_1to6)] }

\* what follows the headers: occurrences of periods 1, 3 and 4 and lunch markers
BodyItems ==
    {PeriodItem(n, "\n", tr) : n \in {3, 4}, tr \in TimeRanges}
        \cup {PeriodItem(1, " ", [startTime |-> TimeText(1, 0), endTime |-> TimeText(1, 45)])}
        \cup {LunchItem("A Lunch"), LunchItem("B Lunch")}

\* the most items that follow the headers
MaxBody == 3

Bodies == UNION {[1..n -> BodyItems] : n \in 0..MaxBody}

NameDoc(m, a, b) ==
    [form |-> "single", m1 |-> m, d1 |-> a, m2 |-> 0, d2 |-> b,
     style |-> "plain", raw |-> <<>>]

\* "April 6th - 10th.pdf", a whole week; "April 8th - 10th.pdf", a week that
\* starts on a Wednesday; "Schedule.pdf", which has no dates
Doc_WholeWeek == NameDoc(3, 6, 10)
Doc_NoDates ==
    [form |-> "raw", m1 |-> 0, d1 |-> 0, m2 |-> 0, d2 |-> 0, style |-> "plain",
     raw |-> <<"S","c","h","e","d","u","l","e">> \o Str_pdf]

\* "April 10th - 10th.pdf", a single day
Doc_OneDay == NameDoc(3, 10, 10)

Header_WholeWeek == [i \in 1..5 |-> HeaderItem(i - 1, Roster_1to6)]

\* the name and the headers of the documents tried in stream-mode
StreamCases ==
    {[doc |-> Doc_WholeWeek, headers |-> h] : h \in HeaderChoices}
        \cup {[doc |-> Doc_OneDay, headers |-> Header_WholeWeek]}

-----------------------------------------------------------------------------
(* Layout-mode inputs: pages, each described by the occurrences printed on  *)
(* it                                                                      *)

\* the rows of the page tried, top first, each with the time range printed
\* under its labels; a third row, at 600, is tried for period 4 in the first
\* column only
RowYs == {700, 650}

RowTimes(y) ==
    IF y = 700 THEN [startTime |-> TimeText(1, 0),  endTime |-> TimeText(1, 45)]
    ELSE IF y = 650 THEN [startTime |-> TimeText(6, 30), endTime |-> TimeText(7, 15)]
    ELSE [startTime |-> TimeText(12, 10), endTime |-> TimeText(12, 55)]

\* where the labels of column c stand
ColumnX(c) == 100 + 100 * c

TimedMatch(n, c, row) ==
    [periodNum |-> n, startTime |-> RowTimes(row).startTime,
     endTime |-> RowTimes(row).endTime, x |-> ColumnX(c), y |-> row,
     columnIndex |-> c]

\* a label under which no time range was found
UntimedMatch(n, c, row) ==
    [periodNum |-> n, startTime |-> <<>>, endTime |-> <<>>, x |-> ColumnX(c),
     y |-> row, columnIndex |-> c]

\* with weekday headers on the page: labels in the first two columns
HeadedMatches ==
    {TimedMatch(n, c, row) : n \in {1, 3, 4}, c \in {0, 1}, row \in RowYs}
        \cup {UntimedMatch(n, c, row) : n \in {3, 4}, c \in {0, 1}, row \in RowYs}
        \cup {TimedMatch(4, 0, 600)}

\* without any weekday header getColumnIndex gives -1 and no time is found
UnheadedMatches == {UntimedMatch(n, -1, row) : n \in {3, 4}, row \in RowYs}

\* the most occurrences on a page
MaxMatches == 3

\* allMatches.sort((a, b) => a.columnIndex - b.columnIndex || b.y - a.y) has run
SortedByColumnAndY(ms) ==
    \A i, j \in DOMAIN ms :
        i < j => \/ ms[i].columnIndex < ms[j].columnIndex
                 \/ ms[i].columnIndex = ms[j].columnIndex /\ ms[i].y > ms[j].y
                 \/ /\ ms[i].columnIndex = ms[j].columnIndex /\ ms[i].y = ms[j].y
                    /\ ms[i].periodNum < ms[j].periodNum

MatchLists ==
    {ms \in UNION {[1..n -> HeadedMatches] : n \in 0..MaxMatches} \cup
            UNION {[1..n -> UnheadedMatches] : n \in 1..MaxMatches} :
        SortedByColumnAndY(ms)}

\* a fragment as openPDF returns it
TextItem(str, atX, atY) == [text |-> str, x |-> atX, y |-> atY]

\* the five weekday headers, one above each column
WeekHeaders == [i \in 1..5 |-> TextItem(DayNames[i], ColumnX(i - 1), 750)]

\* the fragments of an occurrence: its label and, 13 points below it, its time
\* range when it has one
RECURSIVE Fragments(_)
Fragments(ms) ==
    IF ms = <<>> THEN <<>>
    ELSE LET m == Head(ms)
         IN  <<TextItem(Str_Period \o DigitsOf(m.periodNum), m.x, m.y)>>
                 \o (IF m.startTime = <<>> THEN <<>>
                     ELSE <<TextItem(m.startTime \o Str_dash \o m.endTime, m.x, m.y - 13)>>)
                 \o Fragments(Tail(ms))

\* the page that shows the occurrences ms: under the weekday headers, or, for
\* occurrences of no column, without any header
PageOf(ms) ==
    IF ms # <<>> /\ ms[1].columnIndex < 0 THEN Fragments(ms)
    ELSE WeekHeaders \o Fragments(ms)

-----------------------------------------------------------------------------
(* ScheduleScraper: the links of the schedule page and their file paths    *)

\* s.endsWith(t)
EndsWith(s, t) == Len(s) >= Len(t) /\ SubSeq(s, Len(s) - Len(t) + 1, Len(s)) = t

\* an anchor of the page: its attributes and text, an absent attribute being
\* the empty string, and whether the server answers the download of its href
Anchor(name, uuid, ref, shown, answers) ==
    [fileName |-> name, resourceUuid |-> uuid, href |-> ref, text |-> shown,
     ok |-> answers]

\* baseUrl
BaseUrl == <<"https://ehs.lwsd.org">>

\* the each() of extractPDFLinks over the anchors selected by
\* a[data-file-name$=".pdf"]: a link is pushed if (fileName && resourceUuid && href)
RECURSIVE ExtractPDFLinksFrom(_)
ExtractPDFLinksFrom(anchors) ==
    IF anchors = <<>> THEN <<>>
    ELSE LET a == Head(anchors)
         IN  (IF /\ EndsWith(a.fileName, Str_pdf)
                 /\ a.fileName # <<>> /\ a.resourceUuid # <<>> /\ a.href # <<>>
              THEN <<[fileName |-> a.fileName, resourceUuid |-> a.resourceUuid,
                      url |-> BaseUrl \o a.href,
                      text |-> TrimLeft(TrimRight(a.text)), ok |-> a.ok]>>
              ELSE <<>>)
                 \o ExtractPDFLinksFrom(Tail(anchors))

\* the characters that /[<>:"/\\|?*]/ matches
InvalidChars == {"<", ">", ":", "\"", "/", "\\", "|", "?", "*"}

\* replace(/\s+/g, " ")
RECURSIVE NormalizeWhitespace(_)
NormalizeWhitespace(s) ==
    IF s = <<>> THEN <<>>
    ELSE IF IsSpace(Head(s)) THEN <<" ">> \o NormalizeWhitespace(TrimLeft(s))
    ELSE <<Head(s)>> \o NormalizeWhitespace(Tail(s))

\* sanitizeFilename(name)
SanitizeFilename(name) ==
    LET dashed == [i \in DOMAIN name |-> IF name[i] \in InvalidChars THEN "-" ELSE name[i]]
    IN  TrimLeft(TrimRight(NormalizeWhitespace(dashed)))

\* downloadPDF: path.join(this.downloadDir, filename), filename being the
\* sanitized link text, or the file name when that is empty, ending in ".pdf"
FilePath(link) ==
    LET sanitized   == SanitizeFilename(link.text)
        displayName == IF sanitized # <<>> THEN sanitized ELSE link.fileName
        name        == IF EndsWith(displayName, Str_pdf) THEN displayName
                       ELSE displayName \o Str_pdf
    IN  <<"downloads", "/">> \o name

\* no page has been asked for
NoPage == [fetches |-> FALSE, anchors |-> <<>>]

\* the state of a ScheduleScraper that has run nothing
NoDownload ==
    /\ webPage = NoPage
    /\ links = <<>>
    /\ linkIndex = 0
    /\ tried = <<>>
    /\ downloadedFiles = <<>>

-----------------------------------------------------------------------------
(* The drivers                                                             *)

vars == <<mode, pc, doc, filename, dates, text, dayPeriods, periodDays,
          allMatches, nextDayIndex, scanned, assignedDay, result, periods,
          entries, db, run, firstEntries, now, textItems, files, fileIndex,
          attempted, webPage, links, linkIndex, tried, downloadedFiles>>

downloadVars == <<webPage, links, linkIndex, tried, downloadedFiles>>

batchVars == <<files, fileIndex, attempted, downloadVars>>

streamLocals == <<dayPeriods, periodDays, allMatches, nextDayIndex, scanned,
                  assignedDay, result, periods>>

\* ScheduleDatabase.clearAll(): DELETE FROM schedule
ClearAll(table) == <<>>

\* a plausible slip: the table emptied before the rows are inserted
InsertManyIntoEmptied(table, items) == items

\* ScheduleDatabase.insertMany(entries): one INSERT per entry, in order
InsertMany(table, items) == table \o items

\* a row that the table holds before the driver starts
OldRow ==
    [name |-> Str_Period \o <<"9">>,
     startTime |-> [day |-> 0, hour |-> 8, minute |-> 0],
     endTime   |-> [day |-> 0, hour |-> 9, minute |-> 0]]

\* the state of a PDFProcessor that has run nothing
Idle ==
    /\ pc = "start"
    /\ dates = <<>>
    /\ dayPeriods = <<>>
    /\ periodDays = <<>>
    /\ allMatches = <<>>
    /\ nextDayIndex = <<>>
    /\ scanned = 0
    /\ assignedDay = -1
    /\ result = <<>>
    /\ periods = <<>>
    /\ entries = <<>>
    /\ db = <<OldRow>>
    /\ run = 1
    /\ firstEntries = <<>>
    /\ now = 2026
    /\ textItems = <<>>
    /\ files = <<>>
    /\ fileIndex = 0
    /\ attempted = <<>>
    /\ NoDownload

DateInit ==
    /\ mode = "dates"
    /\ doc \in DateDocs
    /\ filename = RenderName(doc)
    /\ text = <<>>
    /\ Idle

StreamInit ==
    /\ mode = "stream"
    /\ \/ \E c \in StreamCases, b \in Bodies : doc = c.doc /\ text = c.headers \o b
       \/ doc = Doc_NoDates /\ text = <<>>
    /\ filename = RenderName(doc)
    /\ Idle

\* parseDateRange(filename) returns; "unparseable" is the early return that
\* warns
CallParseDateRange ==
    /\ pc = "start"
    /\ LET cleanName == CleanName(StripPdf(filename))
       IN  pc' = IF Unparseable(MonthMatches(cleanName), DayMatches(cleanName))
                 THEN "unparseable" ELSE "parsed"
    /\ dates' = ParseDateRange(filename)
    /\ UNCHANGED <<batchVars, textItems, now, mode, doc, filename, text, streamLocals, entries, db, run,
                   firstEntries>>

\* testOnePDF: if (dates.length === 0) return
TestNoDates ==
    /\ mode = "stream"
    /\ pc \in {"parsed", "unparseable"}
    /\ dates = <<>>
    /\ pc' = "done"
    /\ firstEntries' = IF run = 1 THEN entries ELSE firstEntries
    /\ UNCHANGED <<batchVars, textItems, now, mode, doc, filename, dates, text, streamLocals, entries, db, run>>

\* parsePeriodsFromText up to its scan loop: the header rosters, the days of
\* each period, the occurrences, the cursors and the empty result
ParseHeader ==
    /\ mode = "stream"
    /\ pc = "parsed"
    /\ dates # <<>>
    /\ dayPeriods' = DayPeriodsOf(text)
    /\ periodDays' = PeriodDaysOf(DayPeriodsOf(text))
    /\ allMatches' = AllMatchesOf(text)
    /\ nextDayIndex' = FreshNextDayIndex
    /\ result' = <<>>
    /\ scanned' = 0
    /\ assignedDay' = -1
    /\ pc' = "scan"
    /\ UNCHANGED <<batchVars, textItems, now, mode, doc, filename, dates, text, periods, entries, db, run,
                   firstEntries>>

\* one turn of the scan loop, for the occurrence allMatches[scanned + 1]
ScanStep ==
    /\ pc = "scan"
    /\ scanned < Len(allMatches)
    /\ LET entry     == allMatches[scanned + 1]
           periodNum == entry.periodNum
           days      == DaysForPeriod(periodDays, periodNum)
           wrapped   == CursorWrapped(nextDayIndex, periodNum, Len(days))
           currentDayIndex == GetOrZero(wrapped, periodNum)
       IN  IF currentDayIndex >= Len(days)
           THEN /\ nextDayIndex' = wrapped
                /\ assignedDay' = -1
                /\ result' = result
           ELSE /\ nextDayIndex' = Put(wrapped, periodNum, currentDayIndex + 1)
                /\ assignedDay' = days[currentDayIndex + 1]
                /\ result' = ResultAfter(result, text, entry, days[currentDayIndex + 1])
    /\ scanned' = scanned + 1
    /\ UNCHANGED <<batchVars, textItems, now, mode, pc, doc, filename, dates, text, dayPeriods, periodDays,
                   allMatches, periods, entries, db, run, firstEntries>>

\* the end of parsePeriodsFromText: the Map's values, sorted by day and period
ScanDone ==
    /\ pc = "scan"
    /\ scanned = Len(allMatches)
    /\ periods' = Sort(MapValues(result), ComparePeriods)
    /\ pc' = "assemble"
    /\ UNCHANGED <<batchVars, textItems, now, mode, doc, filename, dates, text, dayPeriods, periodDays,
                   allMatches, nextDayIndex, scanned, assignedDay, result,
                   entries, db, run, firstEntries>>

\* the rest of testOnePDF: the entries, then clearAll() and insertMany(entries)
AssembleEntries ==
    /\ pc = "assemble"
    /\ entries' = StreamEntries(periods, dates)
    /\ db' = InsertMany(ClearAll(db), StreamEntries(periods, dates))
    /\ firstEntries' = IF run = 1 THEN StreamEntries(periods, dates) ELSE firstEntries
    /\ pc' = "done"
    /\ UNCHANGED <<batchVars, textItems, now, mode, doc, filename, dates, text, streamLocals, run>>

\* the state of a PDFProcessor that has run nothing, but for the fragments
\* that openPDF has returned
IdleButTextItems ==
    /\ pc = "start"
    /\ dates = <<>>
    /\ dayPeriods = <<>>
    /\ periodDays = <<>>
    /\ allMatches = <<>>
    /\ nextDayIndex = <<>>
    /\ scanned = 0
    /\ assignedDay = -1
    /\ result = <<>>
    /\ periods = <<>>
    /\ entries = <<>>
    /\ db = <<OldRow>>
    /\ run = 1
    /\ firstEntries = <<>>
    /\ now = 2026
    /\ files = <<>>
    /\ fileIndex = 0
    /\ attempted = <<>>
    /\ NoDownload

LayoutInit ==
    /\ mode = "layout"
    /\ \/ doc \in {Doc_WholeWeek, Doc_OneDay} /\ \E ms \in MatchLists : textItems = PageOf(ms)
       \/ doc = Doc_NoDates /\ textItems = <<>>
    /\ filename = RenderName(doc)
    /\ text = <<>>
    /\ IdleButTextItems

\* processPDF: if (dates.length === 0) return
ProcessNoDates ==
    /\ mode = "layout"
    /\ pc \in {"parsed", "unparseable"}
    /\ dates = <<>>
    /\ pc' = "done"
    /\ firstEntries' = IF run = 1 THEN entries ELSE firstEntries
    /\ UNCHANGED <<batchVars, textItems, now, mode, doc, filename, dates, text, streamLocals, entries, db, run>>

\* processPDF: periods = this.parsePeriodsFromText(textItems, dates)
ParsePeriodsFromFragments ==
    /\ mode = "layout"
    /\ pc = "parsed"
    /\ dates # <<>>
    /\ allMatches' = ParsePeriodsFromItems(textItems)
    /\ pc' = "extracted"
    /\ UNCHANGED <<batchVars, textItems, now, mode, doc, filename, dates, text,
                   dayPeriods, periodDays, nextDayIndex, scanned, assignedDay,
                   result, periods, entries, db, run, firstEntries>>

\* savePeriodsToDatabase(allMatches, dates): the entries, then insertMany(entries)
SavePeriodsToDatabase ==
    /\ mode = "layout"
    /\ pc = "extracted"
    /\ dates # <<>>
    /\ entries' = LayoutEntries(allMatches, dates)
    /\ db' = InsertMany(db, LayoutEntries(allMatches, dates))
    /\ firstEntries' = IF run = 1 THEN LayoutEntries(allMatches, dates) ELSE firstEntries
    /\ pc' = "done"
    /\ UNCHANGED <<batchVars, textItems, now, mode, doc, filename, dates, text, streamLocals, run>>

DateNext == CallParseDateRange

DateSpec == DateInit /\ [][DateNext]_vars

StreamNext ==
    \/ CallParseDateRange
    \/ TestNoDates
    \/ ParseHeader
    \/ ScanStep
    \/ ScanDone
    \/ AssembleEntries

StreamSpec == StreamInit /\ [][StreamNext]_vars

LayoutNext ==
    \/ CallParseDateRange
    \/ ProcessNoDates
    \/ ParsePeriodsFromFragments
    \/ SavePeriodsToDatabase

LayoutSpec == LayoutInit /\ [][LayoutNext]_vars

\* both pipelines, each on its own inputs
PipelineInit == StreamInit \/ LayoutInit

PipelineNext == StreamNext \/ LayoutNext

PipelineSpec == PipelineInit /\ [][PipelineNext]_vars

\* the most items after the headers, and the most occurrences, of a document
\* that is run twice
MaxRerun == 2

RerunInit ==
    /\ PipelineInit
    /\ Cardinality({i \in DOMAIN text : text[i].kind # "header"}) <= MaxRerun
    /\ Cardinality({i \in DOMAIN textItems : IsPeriodLabel(textItems[i].text)}) <= MaxRerun

\* the driver is started again on the same document, a year later; whatever
\* the first run left is still there
Rerun ==
    /\ pc = "done"
    /\ run = 1
    /\ run' = 2
    /\ now' = now + 1
    /\ pc' = "start"
    /\ UNCHANGED <<batchVars, textItems, mode, doc, filename, dates, text,
                   streamLocals, entries, db, firstEntries>>

RerunNext == PipelineNext \/ Rerun

RerunSpec == RerunInit /\ [][RerunNext]_vars

\* the time strings that the patterns \d{1,2}:\d{2} accept, tried on one
\* occurrence: clock times and strings past the end of the hour or of the day
AcceptedTimes == {TimeText(h, m) : h \in {1, 7, 12, 23, 24}, m \in {0, 45, 60, 99}}

\* "Period 1" once, in the Monday column, with the given time range
OneOccurrence(tr) ==
    [periodNum |-> 1, startTime |-> tr.startTime, endTime |-> tr.endTime,
     x |-> ColumnX(0), y |-> 700, columnIndex |-> 0]

\* one occurrence with any accepted time range, in either mode
ClockInit ==
    \/ /\ mode = "stream"
       /\ \/ /\ doc = Doc_WholeWeek
             /\ \E a, b \in AcceptedTimes :
                    text = <<HeaderItem(0, Roster_1to6),
                             PeriodItem(1, " ", [startTime |-> a, endTime |-> b])>>
          \/ doc = Doc_NoDates /\ text = <<>>
       /\ filename = RenderName(doc)
       /\ Idle
    \/ /\ mode = "layout"
       /\ \/ /\ doc = Doc_WholeWeek
             /\ \E a, b \in AcceptedTimes :
                    textItems = PageOf(<<OneOccurrence([startTime |-> a, endTime |-> b])>>)
          \/ doc = Doc_NoDates /\ textItems = <<>>
       /\ filename = RenderName(doc)
       /\ text = <<>>
       /\ IdleButTextItems

ClockSpec == ClockInit /\ [][PipelineNext]_vars

\* the documents of a downloads folder: one that openPDF cannot read, one whose
\* name gives no dates, one whose page shows no occurrence, and one with an
\* occurrence
PDFFile(d, readable, page) == [doc |-> d, opens |-> readable, items |-> page]

FileKinds == {
    PDFFile(Doc_WholeWeek, FALSE, <<>>),
    PDFFile(Doc_NoDates, TRUE, PageOf(<<TimedMatch(1, 0, 700)>>)),
    PDFFile(Doc_WholeWeek, TRUE, PageOf(<<>>)),
    PDFFile(Doc_WholeWeek, TRUE, PageOf(<<TimedMatch(1, 0, 700)>>)) }

\* the most documents in the folder
MaxFiles == 3

\* processAllPDFs is called: getPDFFiles() has listed the folder
BatchInit ==
    /\ mode = "layout"
    /\ files \in UNION {[1..n -> FileKinds] : n \in 0..MaxFiles}
    /\ fileIndex = 0
    /\ attempted = <<>>
    /\ NoDownload
    /\ pc = "batch"
    /\ doc = Doc_NoDates
    /\ filename = <<>>
    /\ text = <<>>
    /\ textItems = <<>>
    /\ dates = <<>>
    /\ dayPeriods = <<>>
    /\ periodDays = <<>>
    /\ allMatches = <<>>
    /\ nextDayIndex = <<>>
    /\ scanned = 0
    /\ assignedDay = -1
    /\ result = <<>>
    /\ periods = <<>>
    /\ entries = <<>>
    /\ db = <<OldRow>>
    /\ run = 1
    /\ firstEntries = <<>>
    /\ now = 2026

\* where the loop stands between two documents: before the first, after
\* processPDF has returned, or after the catch has logged its failure
BetweenFiles == pc \in {"batch", "done", "failed"}

\* the next turn of for (const pdfFile of pdfFiles): processPDF(pdfFile) is
\* called
TakeFile ==
    /\ BetweenFiles
    /\ fileIndex < Len(files)
    /\ fileIndex' = fileIndex + 1
    /\ attempted' = Append(attempted, fileIndex + 1)
    /\ doc' = files[fileIndex + 1].doc
    /\ filename' = RenderName(files[fileIndex + 1].doc)
    /\ pc' = "open"
    /\ UNCHANGED <<downloadVars, files, textItems, now, mode, dates, text, streamLocals, entries,
                   db, run, firstEntries>>

\* a plausible slip: no catch around processPDF, the rejection ends the run
OnThrowUncaught == "allDone"

\* catch (error) { console.error(...) }: the loop goes on
OnThrow == "failed"

\* openPDF(pdfFile): the fragments, or the error thrown again
OpenPDF ==
    /\ pc = "open"
    /\ IF files[fileIndex].opens
       THEN textItems' = files[fileIndex].items /\ pc' = "start"
       ELSE textItems' = textItems /\ pc' = OnThrow
    /\ UNCHANGED <<batchVars, now, mode, doc, filename, dates, text, streamLocals,
                   entries, db, run, firstEntries>>

\* the loop is over ("=== Done ==="), or there was no file at all
FinishBatch ==
    /\ BetweenFiles
    /\ fileIndex = Len(files)
    /\ pc' = "allDone"
    /\ UNCHANGED <<batchVars, textItems, now, mode, doc, filename, dates, text,
                   streamLocals, entries, db, run, firstEntries>>

BatchNext ==
    \/ TakeFile
    \/ OpenPDF
    \/ LayoutNext
    \/ FinishBatch

\* the positions of the batch driver
BatchPositions ==
    {"batch", "open", "start", "parsed", "unparseable", "extracted", "done",
     "failed", "allDone"}

\* the driver moves on: every step of BatchNext changes the position, and one
\* is possible at every position but the last
Advance ==
    /\ pc # "allDone"
    /\ pc' \in BatchPositions

\* the loop awaits each call in turn, and every step of a call returns: as
\* long as the run is not over, the driver moves on
BatchSpec == BatchInit /\ [][BatchNext]_vars /\ WF_pc(Advance)

\* the text of a lunch marker
LunchText(which) ==
    IF which = "A Lunch" THEN <<"A", " ", "L", "u", "n", "c", "h">>
    ELSE <<"B", " ", "L", "u", "n", "c", "h">>

\* a document with a Monday column in which period n is printed twice, first
\* with time range tr1 and lower on the page with tr2, a lunch marker between
\* the two: as the text that stream-mode reads
TwiceAsText(n, which, tr1, tr2) ==
    <<HeaderItem(0, Roster_1to6), PeriodItem(n, "\n", tr1), LunchItem(which),
      PeriodItem(n, "\n", tr2)>>

\* the same document as the fragments that layout-mode reads
TwiceAsItems(n, which, tr1, tr2) ==
    <<TextItem(DayNames[1], ColumnX(0), 750),
      TextItem(Str_Period \o DigitsOf(n), ColumnX(0), 700),
      TextItem(tr1.startTime \o Str_dash \o tr1.endTime, ColumnX(0), 687),
      TextItem(LunchText(which), ColumnX(0), 675),
      TextItem(Str_Period \o DigitsOf(n), ColumnX(0), 650),
      TextItem(tr2.startTime \o Str_dash \o tr2.endTime, ColumnX(0), 637)>>

\* one document, given to stream-mode first
BothInit ==
    /\ mode = "stream"
    /\ \/ /\ doc \in {Doc_WholeWeek, Doc_OneDay}
          /\ \E n \in {1, 3, 4}, which \in {"A Lunch", "B Lunch"}, tr1, tr2 \in TimeRanges :
                /\ tr1 # tr2
                /\ text = TwiceAsText(n, which, tr1, tr2)
                /\ textItems = TwiceAsItems(n, which, tr1, tr2)
       \/ doc = Doc_NoDates /\ text = <<>> /\ textItems = <<>>
    /\ filename = RenderName(doc)
    /\ IdleButTextItems

\* the same document is given to layout-mode
SwitchStrategy ==
    /\ mode = "stream"
    /\ pc = "done"
    /\ run = 1
    /\ mode' = "layout"
    /\ run' = 2
    /\ pc' = "start"
    /\ UNCHANGED <<batchVars, textItems, now, doc, filename, dates, text,
                   streamLocals, entries, db, firstEntries>>

BothNext == PipelineNext \/ SwitchStrategy

BothSpec == BothInit /\ [][BothNext]_vars

\* the numbers printed after "Period" that are tried: inside and outside 1..6
PrintedLabels == {0, 1, 6, 7, 12}

\* one occurrence "Period n" in the Monday column, n any printed label, in
\* either mode
LabelInit ==
    \/ /\ mode = "stream"
       /\ \/ /\ doc \in {Doc_WholeWeek, Doc_OneDay}
             /\ \E n \in PrintedLabels, tr \in TimeRanges :
                    text = <<HeaderItem(0, Roster_1to6), PeriodItem(n, "\n", tr)>>
          \/ doc = Doc_NoDates /\ text = <<>>
       /\ filename = RenderName(doc)
       /\ Idle
    \/ /\ mode = "layout"
       /\ \/ /\ doc \in {Doc_WholeWeek, Doc_OneDay}
             /\ \E n \in PrintedLabels, tr \in TimeRanges :
                    textItems = PageOf(<<[periodNum |-> n, startTime |-> tr.startTime,
                                          endTime |-> tr.endTime, x |-> ColumnX(0),
                                          y |-> 700, columnIndex |-> 0]>>)
          \/ doc = Doc_NoDates /\ textItems = <<>>
       /\ filename = RenderName(doc)
       /\ text = <<>>
       /\ IdleButTextItems

LabelSpec == LabelInit /\ [][PipelineNext]_vars

\* the header rows that are tried: none, the first k of the five weekday
\* headers, and the five followed by one more fragment that names a weekday
HeaderRows ==
    {SubSeq(WeekHeaders, 1, k) : k \in 0..5}
        \cup {Append(WeekHeaders, TextItem(DayNames[5], ColumnX(5), 750))}

\* one timed label below any of these header rows, at the place of any column;
\* in stream-mode one occurrence under any of the header choices
ColumnInit ==
    \/ /\ mode = "layout"
       /\ \/ /\ doc \in {Doc_WholeWeek, Doc_OneDay}
             /\ \E hs \in HeaderRows, c \in 0..5 :
                    textItems = hs \o Fragments(<<TimedMatch(1, c, 700)>>)
          \/ doc = Doc_NoDates /\ textItems = <<>>
       /\ filename = RenderName(doc)
       /\ text = <<>>
       /\ IdleButTextItems
    \/ /\ mode = "stream"
       /\ \/ /\ doc = Doc_WholeWeek
             /\ \E hs \in HeaderChoices, b \in [1..2 -> BodyItems] : text = hs \o b
          \/ doc = Doc_NoDates /\ text = <<>>
       /\ filename = RenderName(doc)
       /\ Idle

ColumnSpec == ColumnInit /\ [][PipelineNext]_vars

\* what follows the header where the tie-break is looked at: two printings of
\* periods 1, 3 and 4 and the lunch markers
TieItems ==
    {PeriodItem(n, "\n", tr) : n \in {1, 3, 4}, tr \in TimeRanges}
        \cup {LunchItem("A Lunch"), LunchItem("B Lunch")}

\* the most items that follow the header there
MaxTie == 4

\* a Monday-only roster, so that every further printing of a period meets the
\* slot its first printing took
TieInit ==
    /\ mode = "stream"
    /\ \/ /\ doc = Doc_WholeWeek
          /\ \E b \in UNION {[1..n -> TieItems] : n \in 0..MaxTie} :
                 text = <<HeaderItem(0, Roster_1to6)>> \o b
       \/ doc = Doc_NoDates /\ text = <<>>
    /\ filename = RenderName(doc)
    /\ Idle

TieSpec == TieInit /\ [][StreamNext]_vars

\* a header for each weekday of days, Monday first: Tuesday's roster is
\* "1,3,4", the others' "1-6"
HeadersOf(days) ==
    LET present == SelectSeq(DayIndexes, LAMBDA d : d \in days)
    IN  [i \in DOMAIN present |->
            HeaderItem(present[i], IF present[i] = 1 THEN Roster_134 ELSE Roster_1to6)]

\* what follows the headers there: printings of periods 1 and 2
RosterlessItems == {PeriodItem(n, "\n", tr) : n \in {1, 2}, tr \in TimeRanges}

\* the most items that follow the headers there
MaxScan == 3

\* any set of weekdays may be the ones that have a roster line
RosterlessInit ==
    /\ mode = "stream"
    /\ \/ /\ doc = Doc_WholeWeek
          /\ \E days \in SUBSET Range(DayIndexes),
                b \in UNION {[1..n -> RosterlessItems] : n \in 0..MaxScan} :
                 text = HeadersOf(days) \o b
       \/ doc = Doc_NoDates /\ text = <<>>
    /\ filename = RenderName(doc)
    /\ Idle

\* where testOnePDF can take a step: the guards of the steps of StreamNext
StreamCanStep ==
    \/ pc = "start"
    \/ pc \in {"parsed", "unparseable"} /\ dates = <<>>
    \/ pc = "parsed" /\ dates # <<>>
    \/ pc = "scan" /\ scanned <= Len(allMatches)
    \/ pc = "assemble"

\* the positions of testOnePDF
StreamPositions == {"start", "parsed", "unparseable", "scan", "assemble", "done"}

\* testOnePDF moves on: every step of StreamNext changes the position or the
\* number of occurrences scanned
ScanAdvance ==
    /\ StreamCanStep
    /\ pc' \in StreamPositions
    /\ scanned' \in 0..Len(text)

\* testOnePDF is run to its end: a step that can be taken is taken
RosterlessSpec ==
    RosterlessInit /\ [][StreamNext]_vars /\ WF_<<pc, scanned>>(ScanAdvance)

\* the parts a roster line is made of: single periods and ranges
RosterParts ==
    {FormatInt(n) : n \in {1, 3, 5}}
        \cup {FormatInt(r[1]) \o <<"-">> \o FormatInt(r[2]) : r \in {<<1, 3>>, <<2, 6>>, <<4, 4>>}}

\* the most parts of a roster line
MaxParts == 2

\* the parts joined by commas
RECURSIVE JoinWithCommas(_)
JoinWithCommas(parts) ==
    IF Len(parts) = 1 THEN parts[1]
    ELSE parts[1] \o <<",">> \o JoinWithCommas(Tail(parts))

\* the roster lines tried: "3", "1-3", "1,3", "1-3,5", "2-6,1-3", ...
RosterLines ==
    {JoinWithCommas(ps) : ps \in UNION {[1..n -> RosterParts] : n \in 1..MaxParts}}

\* Monday's header with any of these roster lines, and at most one occurrence
RosterInit ==
    /\ mode = "stream"
    /\ \/ /\ doc = Doc_WholeWeek
          /\ \E line \in RosterLines,
                b \in UNION {[1..n -> {PeriodItem(q, "\n", tr) : q \in {1, 2}, tr \in TimeRanges}] :
                                n \in 0..1} :
                 text = <<HeaderItem(0, line)>> \o b
       \/ doc = Doc_NoDates /\ text = <<>>
    /\ filename = RenderName(doc)
    /\ Idle

RosterSpec == RosterInit /\ [][StreamNext]_vars

\* a name over two months followed by a third month and a third day number:
\* "April 27th - May 1st June 5th.pdf"
TrailedDocs ==
    {[form |-> "trailed", m1 |-> c.m1, d1 |-> c.d1, m2 |-> c.m2, d2 |-> c.d2,
      style |-> "plain",
      raw |-> StripPdf(RenderName(c)) \o <<" ">> \o Capitalize(MonthKeys[6])
                  \o <<" ", "5", "t", "h">> \o Str_pdf] :
        c \in {x \in CrossDocs : x.m1 \in {3, 4}}}

\* parseDateRange is called with a name of one month, of two months, or of two
\* months and more
RangeInit ==
    /\ mode = "dates"
    /\ doc \in {d \in SingleDocs : d.style = "plain"} \cup CrossDocs \cup TrailedDocs
    /\ filename = RenderName(doc)
    /\ text = <<>>
    /\ Idle

RangeSpec == RangeInit /\ [][DateNext]_vars

\* the header rows under which a label is placed: the first k weekday headers,
\* evenly spaced; three headers unevenly spaced; two headers met right to left
\* in the page; none; and six
MidpointRows ==
    HeaderRows
        \cup {<<TextItem(DayNames[1], 100, 750), TextItem(DayNames[2], 205, 750),
                TextItem(DayNames[3], 300, 750)>>,
              <<TextItem(DayNames[2], 200, 750), TextItem(DayNames[1], 100, 750)>>}

\* where the label is placed: left of every header, on headers, and on and
\* next to the midpoints
LabelXs == {40, 100, 149, 150, 151, 152, 153, 200, 249, 250, 252, 253, 349, 350,
            449, 450, 500, 549, 550, 700}

\* one timed label "Period 1" at any of these places under any of these rows
MidpointInit ==
    /\ mode = "layout"
    /\ \/ /\ doc \in {Doc_WholeWeek, Doc_OneDay}
          /\ \E hs \in MidpointRows, atX \in LabelXs :
                 textItems = hs \o <<TextItem(Str_Period \o <<"1">>, atX, 700),
                                     TextItem(TimeText(1, 0) \o Str_dash \o TimeText(1, 45),
                                              atX, 687)>>
       \/ doc = Doc_NoDates /\ textItems = <<>>
    /\ filename = RenderName(doc)
    /\ text = <<>>
    /\ IdleButTextItems

MidpointSpec == MidpointInit /\ [][LayoutNext]_vars

\* where one more time fragment is placed: inside and outside the search
\* ranges and on both sides of the midpoints
StrayXs == {55, 60, 140, 150, 160, 190, 195, 250, 460, 600, 601}

\* on the time row of a label at 700, at the edge of the tolerance, and a row
\* further down
StrayYs == {687, 689, 690, 650}

\* under the five weekday headers: a label "Period 1" in a column, with or
\* without its own time below it, and one more time fragment somewhere
NeighbourInit ==
    /\ mode = "layout"
    /\ \/ /\ doc \in {Doc_WholeWeek, Doc_OneDay}
          /\ \E c \in {0, 1, 4}, own \in BOOLEAN, atX \in StrayXs, atY \in StrayYs :
                 textItems =
                     WeekHeaders
                         \o <<TextItem(Str_Period \o <<"1">>, ColumnX(c), 700)>>
                         \o (IF own
                             THEN <<TextItem(TimeText(1, 0) \o Str_dash \o TimeText(1, 45),
                                             ColumnX(c), 687)>>
                             ELSE <<>>)
                         \o <<TextItem(TimeText(6, 30) \o Str_dash \o TimeText(7, 15),
                                       atX, atY)>>
       \/ doc = Doc_NoDates /\ textItems = <<>>
    /\ filename = RenderName(doc)
    /\ text = <<>>
    /\ IdleButTextItems

NeighbourSpec == NeighbourInit /\ [][LayoutNext]_vars

\* a page without any weekday header: labels, with and without a time below
\* them, at the places of the first two columns
HeaderlessInit ==
    /\ mode = "layout"
    /\ \/ /\ doc \in {Doc_WholeWeek, Doc_OneDay}
          /\ \E ms \in MatchLists : textItems = Fragments(ms)
       \/ doc = Doc_NoDates /\ textItems = <<>>
    /\ filename = RenderName(doc)
    /\ text = <<>>
    /\ IdleButTextItems

HeaderlessSpec == HeaderlessInit /\ [][LayoutNext]_vars

\* the anchors tried: answered and refused downloads, a text with characters
\* that are replaced, an empty text, a text that ends in ".pdf", an anchor
\* without resource id and one whose file is no PDF
AnchorKinds == {
    Anchor(<<"a">> \o Str_pdf, <<"u">>, <<"/", "a">>, <<"A">>, TRUE),
    Anchor(<<"b">> \o Str_pdf, <<"u">>, <<"/", "b">>, <<" ", "B", ":", " ", " ", "1", " ">>, TRUE),
    Anchor(<<"c">> \o Str_pdf, <<"u">>, <<"/", "c">>, <<>>, TRUE),
    Anchor(<<"d">> \o Str_pdf, <<"u">>, <<"/", "d">>, <<"D">> \o Str_pdf, FALSE),
    Anchor(<<"e">> \o Str_pdf, <<>>, <<"/", "e">>, <<"E">>, TRUE),
    Anchor(<<"f", ".", "d", "o", "c">>, <<"u">>, <<"/", "f">>, <<"F">>, TRUE) }

\* the most anchors on the page
MaxAnchors == 3

\* downloadAll is called
DownloadInit ==
    /\ mode = "download"
    /\ pc = "fetch"
    /\ webPage \in [fetches : BOOLEAN,
                 anchors : UNION {[1..n -> AnchorKinds] : n \in 0..MaxAnchors}]
    /\ links = <<>>
    /\ linkIndex = 0
    /\ tried = <<>>
    /\ downloadedFiles = <<>>
    /\ files = <<>>
    /\ fileIndex = 0
    /\ attempted = <<>>
    /\ doc = Doc_NoDates
    /\ filename = <<>>
    /\ text = <<>>
    /\ textItems = <<>>
    /\ dates = <<>>
    /\ dayPeriods = <<>>
    /\ periodDays = <<>>
    /\ allMatches = <<>>
    /\ nextDayIndex = <<>>
    /\ scanned = 0
    /\ assignedDay = -1
    /\ result = <<>>
    /\ periods = <<>>
    /\ entries = <<>>
    /\ db = <<OldRow>>
    /\ run = 1
    /\ firstEntries = <<>>
    /\ now = 2026

\* what the downloader leaves alone
processorVars == <<files, fileIndex, attempted, textItems, now, mode, doc, filename,
                   dates, text, streamLocals, entries, db, run, firstEntries>>

\* links = await this.extractPDFLinks(): the links, or the error of the page
\* fetch thrown again, which downloadAll throws again
ExtractPDFLinks ==
    /\ mode = "download"
    /\ pc = "fetch"
    /\ IF webPage.fetches
       THEN links' = ExtractPDFLinksFrom(webPage.anchors) /\ pc' = "links"
       ELSE links' = links /\ pc' = "thrown"
    /\ UNCHANGED <<processorVars, webPage, linkIndex, tried, downloadedFiles>>

\* if (links.length === 0) return []
ReturnNoLinks ==
    /\ mode = "download"
    /\ pc = "links"
    /\ Len(links) = 0
    /\ pc' = "returned"
    /\ UNCHANGED <<processorVars, downloadVars>>

\* a plausible slip: no catch around downloadPDF, the error ends downloadAll
OnDownloadErrorUncaught == "thrown"

\* catch (error) { console.error(...) }: the loop goes on
OnDownloadError == "links"

\* one turn of for (const link of links): downloadPDF(link) returns the file
\* path, which is pushed, or throws
DownloadPDF ==
    /\ mode = "download"
    /\ pc = "links"
    /\ linkIndex < Len(links)
    /\ linkIndex' = linkIndex + 1
    /\ tried' = Append(tried, linkIndex + 1)
    /\ IF links[linkIndex + 1].ok
       THEN /\ downloadedFiles' = Append(downloadedFiles, FilePath(links[linkIndex + 1]))
            /\ pc' = "links"
       ELSE /\ downloadedFiles' = downloadedFiles
            /\ pc' = OnDownloadError
    /\ UNCHANGED <<processorVars, webPage, links>>

\* return downloadedFiles
ReturnDownloaded ==
    /\ mode = "download"
    /\ pc = "links"
    /\ Len(links) > 0
    /\ linkIndex = Len(links)
    /\ pc' = "returned"
    /\ UNCHANGED <<processorVars, downloadVars>>

DownloadNext ==
    \/ ExtractPDFLinks
    \/ ReturnNoLinks
    \/ DownloadPDF
    \/ ReturnDownloaded

\* every await of downloadAll settles: a step that can be taken is taken
DownloadSpec == DownloadInit /\ [][DownloadNext]_vars /\ WF_vars(DownloadNext)

-----------------------------------------------------------------------------
(* Notions the properties are stated in                                    *)

\* Monday to Friday
OnWeekday(d) == GetDay(d) \notin {0, 6}

WeekdaysBetween(lo, hi) == {n \in lo..hi : OnWeekday(n)}

StrictlyAscending(q) == \A i, j \in DOMAIN q : i < j => q[i] < q[j]

Smaller(a, b) == IF a < b THEN a ELSE b

\* q lists all of W in ascending order
ListsAll(q, W) ==
    StrictlyAscending(q) /\ Range(q) = W

\* q lists the five smallest members of W, or all of W when it has fewer
ListsFirstFive(q, W) ==
    /\ StrictlyAscending(q)
    /\ Range(q) \subseteq W
    /\ Len(q) = Smaller(5, Cardinality(W))
    /\ \A w \in W \ Range(q) : \A i \in DOMAIN q : q[i] < w

\* the name is "<Month> D1 - D2" with both days in that month and D1 <= D2
SingleMonthRange ==
    /\ doc.form = "single"
    /\ 1 <= doc.d1 /\ doc.d1 <= doc.d2 /\ doc.d2 <= DaysInMonth[doc.m1 + 1]

\* the weekdays of D1..D2 of the name's month in year y
RangeWeekdays(y) ==
    {MakeDate(y, doc.m1, d) : d \in doc.d1..doc.d2} \cap WeekdaysBetween(0, 730)

SchoolYears == {2025, 2026}

Returned == pc \in {"parsed", "unparseable"}

\* C1 as stated: a single-month name yields exactly the weekdays of [D1, D2],
\* ascending, and at most 5 of them.
C1_ExactlyRangeWeekdays ==
    (Returned /\ SingleMonthRange) =>
        /\ \E y \in SchoolYears : ListsAll(dates, RangeWeekdays(y))
        /\ Len(dates) <= 5

\* C1 amended: a single-month name yields the weekdays of [D1, D2] in ascending
\* order cut to the first 5: all of them when the range holds at most 5.
C1_FirstFiveRangeWeekdays ==
    (Returned /\ SingleMonthRange) =>
        \E y \in SchoolYears : ListsFirstFive(dates, RangeWeekdays(y))

\* "April 6th - 10th.pdf" has yielded Monday April 6 to Friday April 10, 2026
C1_Witness ==
    /\ pc = "parsed"
    /\ SingleMonthRange
    /\ doc.m1 = 3 /\ doc.d1 = 6 /\ doc.d2 = 10 /\ doc.style = "plain"
    /\ dates = <<460, 461, 462, 463, 464>>
    /\ GetDay(dates[1]) = 1

\* a month name occurs somewhere in s, in any case
ContainsMonthName(s) ==
    \E i \in DOMAIN s, k \in DOMAIN MonthKeys :
        /\ i + Len(MonthKeys[k]) - 1 <= Len(s)
        /\ ToLowerCase(SubSeq(s, i, i + Len(MonthKeys[k]) - 1)) = MonthKeys[k]

\* where the maximal runs of digits of s start, and how long each is
DigitRunStarts(s) ==
    {i \in DOMAIN s : s[i] \in DigitChars /\ (i = 1 \/ s[i - 1] \notin DigitChars)}

DigitRunLen(s, i) ==
    Cardinality({j \in i..Len(s) : \A k \in i..j : s[k] \in DigitChars})

\* the numbers of one or two digits written in s
DayNumberCount(s) ==
    Cardinality({i \in DigitRunStarts(s) : DigitRunLen(s, i) <= 2})

\* C2 as stated: a name that holds no month name, or fewer than two day
\* numbers, yields the empty sequence.
C2_NoMonthOrOneDayIsEmpty ==
    (Returned /\ (~ContainsMonthName(filename) \/ DayNumberCount(filename) < 2)) =>
        dates = <<>>

\* C8: whatever the name, the returned dates are strictly increasing, none is a
\* Saturday or a Sunday, and there are at most 5.
C8_DatesAscendingWeekdaysAtMostFive ==
    Returned =>
        /\ StrictlyAscending(dates)
        /\ \A i \in DOMAIN dates : OnWeekday(dates[i])
        /\ Len(dates) <= 5

\* "December 28th - January 3rd.pdf" has yielded five dates across the new year
C8_Witness ==
    /\ pc = "parsed"
    /\ doc.form = "cross" /\ doc.m1 = 11 /\ doc.m2 = 0
    /\ Len(dates) = 5
    /\ dates[1] < 365 /\ dates[5] >= 365

\* C9 as stated: the date at index i (from 0) falls on weekday i, Monday being
\* 0; getDay() numbers Monday 1, and sequences here start at 1.
C9_IndexIsWeekday ==
    Returned => \A i \in DOMAIN dates : GetDay(dates[i]) = i

\* the months of the range the name states
DocStartMonth == doc.m1
DocEndMonth   == IF doc.form = "cross" THEN doc.m2 ELSE doc.m1

\* the weekdays from day d1 of the start month to day d2 of the end month,
\* each month put in the year yearOf gives it
StatedWeekdays(yearOf(_)) ==
    WeekdaysBetween(MakeDate(yearOf(DocStartMonth), DocStartMonth, doc.d1),
                    MakeDate(yearOf(DocEndMonth), DocEndMonth, doc.d2))

JulyToDecember2025(m) == IF m \in 6..11 THEN 2025 ELSE 2026

AugustToDecember2025(m) == IF m \in 7..11 THEN 2025 ELSE 2026

\* C10 as stated: July..December are put in 2025 and January..June in 2026, the
\* start month and the end month each on its own.
C10_YearJulyToDecember ==
    (pc = "parsed" /\ doc.form \in {"single", "cross"}) =>
        ListsFirstFive(dates, StatedWeekdays(JulyToDecember2025))

\* C10 amended: August..December are put in 2025 and January..July in 2026,
\* the start month and the end month each on its own.
C10_YearAugustToDecember ==
    (pc = "parsed" /\ doc.form \in {"single", "cross"}) =>
        ListsFirstFive(dates, StatedWeekdays(AugustToDecember2025))

\* "July 6th - 10th.pdf" has yielded the week of July 6, 2026
C10_Witness ==
    /\ pc = "parsed"
    /\ doc.form = "single" /\ doc.m1 = 6 /\ doc.d1 = 6 /\ doc.d2 = 10
    /\ dates # <<>>
    /\ dates[1] = MakeDate(2026, 6, 6)

\* the hour and the minute that a printed time "h:mm" or "hh:mm" shows
PrintedHour(str) ==
    IF str[2] = ":" THEN DigitVal(str[1])
    ELSE 10 * DigitVal(str[1]) + DigitVal(str[2])

PrintedMinute(str) == 10 * DigitVal(str[Len(str) - 1]) + DigitVal(str[Len(str)])

\* the instant claimed for a printed time on date D
ClaimedInstant(str, D) ==
    [day    |-> D,
     hour   |-> IF PrintedHour(str) < 7 THEN PrintedHour(str) + 12
                ELSE PrintedHour(str),
     minute |-> PrintedMinute(str)]

\* the resolved stream-mode occurrences whose column has a date
WithDate == SelectSeq(periods, LAMBDA q : q.columnIndex + 1 \in DOMAIN dates)

\* C3: in both pipelines the start and the end of every assembled entry are, each
\* on its own, the printed time on the column's date with 12 added to the hour
\* when the printed hour is below 7, the hour as printed otherwise, and the
\* minute as printed.
C3_HourBelowSevenPlusTwelve ==
    pc = "done" =>
        /\ mode = "stream" =>
            /\ Len(entries) = Len(WithDate)
            /\ \A i \in DOMAIN entries :
                LET D == dates[WithDate[i].columnIndex + 1] IN
                /\ entries[i].startTime = ClaimedInstant(WithDate[i].startTime, D)
                /\ entries[i].endTime = ClaimedInstant(WithDate[i].endTime, D)
        /\ mode = "layout" =>
            \A i \in DOMAIN entries :
                \E m \in Range(allMatches) :
                    /\ m.startTime # <<>>
                    /\ m.columnIndex + 1 \in DOMAIN dates
                    /\ entries[i].name = Str_Period \o FormatInt(m.periodNum)
                    /\ entries[i].startTime =
                           ClaimedInstant(m.startTime, dates[m.columnIndex + 1])
                    /\ entries[i].endTime =
                           ClaimedInstant(m.endTime, dates[m.columnIndex + 1])

\* stream-mode: "Period 1 1:00 - 1:45" under a Monday roster, in the week of
\* April 6, 2026, has become an entry from 13:00 to 13:45 on April 6
C3_Witness ==
    /\ mode = "stream"
    /\ pc = "done"
    /\ Len(periods) = 1
    /\ periods[1].startTime = TimeText(1, 0)
    /\ periods[1].endTime = TimeText(1, 45)
    /\ periods[1].columnIndex = 0
    /\ Len(entries) = 1
    /\ entries[1].startTime = [day |-> 460, hour |-> 13, minute |-> 0]
    /\ entries[1].endTime = [day |-> 460, hour |-> 13, minute |-> 45]

\* the occurrences of period n that layout-mode put in column c
GroupMembers(c, n) ==
    {m \in Range(allMatches) : m.columnIndex = c /\ m.periodNum = n}

\* the member of S that stands highest on the page
Topmost(S) == CHOOSE m \in S : \A o \in S : o.y <= m.y

\* the occurrence that the duplicate rules are claimed to select
ClaimedPick(n, S) ==
    IF n = 4 /\ Cardinality(S) > 1 THEN Topmost(S \ {Topmost(S)}) ELSE Topmost(S)

\* the entries of period n on date D
EntriesOf(n, D) ==
    {i \in DOMAIN entries :
        entries[i].name = Str_Period \o FormatInt(n) /\ entries[i].startTime.day = D}

\* C4: in layout-mode, of the occurrences of a period in a column, taken from
\* the top of the page down, period 3 gets the topmost, period 4 with more than
\* one occurrence gets the second-topmost and never the first, every other case
\* gets the topmost: the entry of that period on that column's date carries the
\* times of that occurrence, and there is no entry when that occurrence has none.
C4_DuplicateRules ==
    (mode = "layout" /\ pc = "done") =>
        \A c \in 0..4, n \in 1..6 :
            (GroupMembers(c, n) # {} /\ c + 1 \in DOMAIN dates) =>
                LET pick == ClaimedPick(n, GroupMembers(c, n))
                    D    == dates[c + 1]
                IN  IF pick.startTime = <<>> THEN EntriesOf(n, D) = {}
                    ELSE /\ EntriesOf(n, D) # {}
                         /\ \A i \in EntriesOf(n, D) :
                              /\ entries[i].startTime = ParseTime(pick.startTime, D)
                              /\ entries[i].endTime = ParseTime(pick.endTime, D)

\* period 4 stands three times in the first column, each time with a time
\* range; the one entry has the times of the middle one, 6:30 - 7:15
C4_Witness ==
    /\ mode = "layout"
    /\ pc = "done"
    /\ Len(allMatches) = 3
    /\ \A i \in 1..3 : /\ allMatches[i].periodNum = 4
                       /\ allMatches[i].columnIndex = 0
                       /\ allMatches[i].startTime # <<>>
    /\ Len(entries) = 1
    /\ entries[1].startTime = [day |-> dates[1], hour |-> 18, minute |-> 30]
    /\ entries[1].endTime = [day |-> dates[1], hour |-> 7, minute |-> 15]

\* the periods that a roster line of the documents tried stands for
RosterMeans(rosterLine) ==
    IF rosterLine = Roster_1to6 THEN 1..6 ELSE {1, 3, 4}

\* the expected columns of period p: the weekdays, Monday first, whose first
\* header has p in its roster
ExpectedColumns(p) ==
    SelectSeq(DayIndexes, LAMBDA d :
        \E i \in DOMAIN text :
            /\ text[i].kind = "header" /\ text[i].day = d
            /\ \A j \in 1..(i - 1) : ~(text[j].kind = "header" /\ text[j].day = d)
            /\ p \in RosterMeans(text[i].roster))

\* how many occurrences of the period of allMatches[n] come before it
EarlierOccurrences(n) ==
    Cardinality({i \in 1..(n - 1) : allMatches[i].periodNum = allMatches[n].periodNum})

\* C5: in stream-mode, when the expected-column list L of period p is not
\* empty, the k-th occurrence of p in document order (k from 0) is assigned
\* column L[k mod |L|]; sequences here start at 1.
C5_KthOccurrenceGetsKthColumn ==
    (mode = "stream" /\ pc = "scan" /\ scanned >= 1) =>
        LET L == ExpectedColumns(allMatches[scanned].periodNum)
            k == EarlierOccurrences(scanned)
        IN  L # <<>> => assignedDay = L[(k % Len(L)) + 1]

\* Monday alone has a roster; the second occurrence of a period has found the
\* list exhausted and has been given Monday again
C5_Witness ==
    /\ mode = "stream"
    /\ pc = "scan"
    /\ scanned = 2
    /\ allMatches[1].periodNum = allMatches[2].periodNum
    /\ ExpectedColumns(allMatches[2].periodNum) = <<0>>
    /\ assignedDay = 0

\* C6: after resolution there is at most one occurrence for each pair of a period
\* and a column: in the list that stream-mode parsePeriodsFromText returns and
\* in the entries that layout-mode savePeriodsToDatabase assembles, where the
\* column of an entry is the date it is on.
C6_OnePerPeriodAndColumn ==
    /\ (mode = "stream" /\ pc \in {"assemble", "done"}) =>
            \A i, j \in DOMAIN periods :
                (periods[i].name = periods[j].name
                    /\ periods[i].columnIndex = periods[j].columnIndex) => i = j
    /\ (mode = "layout" /\ pc = "done") =>
            \A i, j \in DOMAIN entries :
                (entries[i].name = entries[j].name
                    /\ entries[i].startTime.day = entries[j].startTime.day) => i = j

\* stream-mode: two occurrences of one period were both given Monday and the
\* list returned holds one of them
C6_Witness ==
    /\ mode = "stream"
    /\ pc = "assemble"
    /\ Len(allMatches) = 2
    /\ allMatches[1].periodNum = allMatches[2].periodNum
    /\ DOMAIN dayPeriods = {0}
    /\ Len(periods) = 1

C11_InstantsOnColumnDate ==
    pc = "done" =>
        /\ mode = "stream" =>
            \A i \in DOMAIN entries :
                /\ i \in DOMAIN WithDate
                /\ entries[i].startTime.day = dates[WithDate[i].columnIndex + 1]
                /\ entries[i].endTime.day = dates[WithDate[i].columnIndex + 1]
        /\ mode = "layout" =>
            \A i \in DOMAIN entries :
                \E m \in Range(allMatches) :
                    /\ m.columnIndex + 1 \in DOMAIN dates
                    /\ entries[i].name = Str_Period \o FormatInt(m.periodNum)
                    /\ entries[i].startTime.day = dates[m.columnIndex + 1]
                    /\ entries[i].endTime.day = dates[m.columnIndex + 1]

\* the resolved stream-mode occurrences whose column index is an index of the
\* dates
DatedPeriods == {i \in DOMAIN periods : periods[i].columnIndex < Len(dates)}

\* the layout-mode pairs of a column and a period of which an occurrence was
\* found, whose column index is an index of the dates and whose resolved
\* occurrence has a time
DatedTimedGroups ==
    {g \in {<<m.columnIndex, m.periodNum>> : m \in Range(allMatches)} :
        /\ g[1] >= 0 /\ g[1] < Len(dates)
        /\ ClaimedPick(g[2], GroupMembers(g[1], g[2])).startTime # <<>>}

\* C12: an occurrence whose column index has no date yields no entry, and all
\* the others still yield theirs: there are as many entries as resolved, timed
\* occurrences whose column index has a date, each of these has its entry on
\* its column's date, and no entry is on any other date.
C12_EntriesAreTheDatedOccurrences ==
    pc = "done" =>
        /\ \A i \in DOMAIN entries :
               \E k \in DOMAIN dates : entries[i].startTime.day = dates[k]
        /\ mode = "stream" =>
            /\ Len(entries) = Cardinality(DatedPeriods)
            /\ \A i \in DatedPeriods :
                   \E j \in DOMAIN entries :
                       /\ entries[j].name = periods[i].name
                       /\ entries[j].startTime.day = dates[periods[i].columnIndex + 1]
        /\ mode = "layout" =>
            /\ Len(entries) = Cardinality(DatedTimedGroups)
            /\ \A g \in DatedTimedGroups : EntriesOf(g[2], dates[g[1] + 1]) # {}

\* stream-mode, "April 10th - 10th.pdf": of two resolved occurrences, one in
\* the Monday column and one in the Tuesday column, only the first has a date
\* and an entry
C12_Witness ==
    /\ mode = "stream"
    /\ pc = "done"
    /\ Len(dates) = 1
    /\ Len(periods) = 2
    /\ periods[1].columnIndex = 0
    /\ periods[2].columnIndex = 1
    /\ Len(entries) = 1
    /\ entries[1].name = periods[1].name

\* C13: in processAllPDFs no document is fatal: a document that cannot be
\* opened, or whose name gives no dates, or that shows no occurrence, does not
\* keep the later ones from being processed; the documents are attempted once
\* each and in order, and the run ends in its Done state with all of them
\* attempted.
C13_EveryFileAttemptedThenDone ==
    /\ [](/\ Len(attempted) = fileIndex
          /\ \A i \in DOMAIN attempted : attempted[i] = i)
    /\ <>(pc = "allDone" /\ Len(attempted) = Len(files))

\* a folder of three: the first cannot be opened, the name of the second gives
\* no dates, and the third was still processed and gave its entry
C13_Witness ==
    /\ pc = "allDone"
    /\ Len(files) = 3
    /\ ~files[1].opens
    /\ files[2].doc = Doc_NoDates
    /\ files[3].opens /\ files[3].doc = Doc_WholeWeek
    /\ attempted = <<1, 2, 3>>
    /\ Len(entries) = 1
    /\ Len(db) = 2

\* C14 as stated: for a document in which a period is printed twice in a
\* column, the first higher on the page and earlier in the text, with a lunch
\* marker between the two, layout-mode resolves the pair to the occurrence that
\* stream-mode resolved it to: the entries of the two strategies are the same.
C14_StrategiesAgree ==
    (mode = "layout" /\ pc = "done" /\ run = 2) => entries = firstEntries

\* the names of the periods 1..6
TeachingPeriodNames == {Str_Period \o DigitsOf(n) : n \in 1..6}

\* C15 as stated: every occurrence that either strategy returns and every entry
\* carries a period label in 1..6; a printed "Period n" with n outside 1..6
\* yields neither.
C15_LabelsOneToSix ==
    /\ (mode = "stream" /\ pc \in {"assemble", "done"}) =>
            \A i \in DOMAIN periods : periods[i].name \in TeachingPeriodNames
    /\ (mode = "layout" /\ pc \in {"extracted", "done"}) =>
            \A i \in DOMAIN allMatches : allMatches[i].periodNum \in 1..6
    /\ pc = "done" =>
            \A i \in DOMAIN entries : entries[i].name \in TeachingPeriodNames

\* C16 as stated: every occurrence that either strategy returns has a column
\* index in 0..4, whatever the header rosters are in stream-mode and however
\* many fragments name a weekday in layout-mode.
C16_ColumnIndexInGrid ==
    /\ (mode = "stream" /\ pc \in {"assemble", "done"}) =>
            \A i \in DOMAIN periods : periods[i].columnIndex \in 0..4
    /\ (mode = "layout" /\ pc \in {"extracted", "done"}) =>
            \A i \in DOMAIN allMatches : allMatches[i].columnIndex \in 0..4

\* the lunch marker nearest before offset index of the text, "none" if there
\* is none
NearestLunchBefore(txt, index) ==
    LET at == {i \in 1..index : txt[i].kind \in {"A Lunch", "B Lunch"}}
    IN  IF at = {} THEN "none"
        ELSE txt[CHOOSE i \in at : \A j \in at : j <= i].kind

\* C17 as stated: a turn of the scan loop changes a slot that already holds an
\* occurrence only if the period is 3 and the nearest lunch marker before the
\* new occurrence is "B Lunch", or the period is 4 and it is "A Lunch".
C17_ReplacesOnlyAfterItsLunch ==
    [][(/\ pc = "scan"
        /\ scanned' = scanned + 1
        /\ assignedDay' >= 0
        /\ MapHas(result, ResultKey(allMatches[scanned + 1].periodNum, assignedDay'))
        /\ result' # result)
          => LET entry == allMatches[scanned + 1]
                 nearest == NearestLunchBefore(text, entry.index)
             IN  \/ entry.periodNum = 3 /\ nearest = "B Lunch"
                 \/ entry.periodNum = 4 /\ nearest = "A Lunch"]_vars

\* the weekdays that have a roster line in the text
DaysWithRoster ==
    {d \in Range(DayIndexes) : \E i \in DOMAIN text : text[i].kind = "header" /\ text[i].day = d}

\* the roster of weekday d: what its first header's line means
RosterOfDay(d) ==
    LET first == CHOOSE i \in DOMAIN text :
                    /\ text[i].kind = "header" /\ text[i].day = d
                    /\ \A j \in 1..(i - 1) : ~(text[j].kind = "header" /\ text[j].day = d)
    IN  RosterMeans(text[first].roster)

\* C18: in stream-mode every occurrence (p, c) of the output has a weekday c
\* with a roster that contains p; when no weekday has a roster the output is
\* empty; and the scan never overruns the occurrences and always comes to its
\* end.
C18_RosterlessDaysExcluded ==
    /\ [](pc \in {"assemble", "done"} =>
            /\ \A i \in DOMAIN periods :
                   /\ periods[i].columnIndex \in DaysWithRoster
                   /\ NameNumber(periods[i].name) \in RosterOfDay(periods[i].columnIndex)
            /\ DaysWithRoster = {} => periods = <<>>)
    /\ [](scanned <= Len(allMatches))
    /\ <>(pc = "done")

\* the output where Tuesday is the only weekday with a roster and periods 1
\* and 2 are printed: period 1 alone, on Tuesday
C18_Witness ==
    /\ pc = "done"
    /\ DaysWithRoster = {1}
    /\ \E i, j \in DOMAIN allMatches : allMatches[i].periodNum = 1 /\ allMatches[j].periodNum = 2
    /\ Len(periods) = 1
    /\ periods[1].columnIndex = 1
    /\ periods[1].name = Str_Period \o <<"1">>

\* what a part of a roster line denotes: "a-b" the periods a..b, "p" the
\* period p
PartDenotes(part) ==
    IF "-" \in Range(part)
    THEN LET ends == Split(part, "-") IN ParseInt(ends[1])..ParseInt(ends[2])
    ELSE {ParseInt(part)}

\* what a roster line denotes: the union of what its parts denote
RosterDenotes(rosterLine) ==
    LET parts == Split(rosterLine, ",")
    IN  UNION {PartDenotes(parts[i]) : i \in DOMAIN parts}

\* C19 as stated: the roster recorded for a weekday is the set of periods that
\* its roster line denotes, be the line a range, a comma list or a mix of both.
C19_RosterIsWhatTheLineDenotes ==
    (mode = "stream" /\ pc \in {"scan", "assemble", "done"}) =>
        \A d \in Range(DayIndexes) :
            FirstHeader(text, d) # 0 =>
                /\ d \in DOMAIN dayPeriods
                /\ dayPeriods[d] = RosterDenotes(text[FirstHeader(text, d)].roster)

\* the start and the end that the name states: the first month with the first
\* day number, and the second month (the first when there is one month only)
\* with the second day number
StatedStart == MakeDate(AugustToDecember2025(doc.m1), doc.m1, doc.d1)

StatedEndMonth == IF doc.form = "single" THEN doc.m1 ELSE doc.m2

StatedEnd == MakeDate(AugustToDecember2025(StatedEndMonth), StatedEndMonth, doc.d2)

\* "April 27th - May 1st.pdf"
IsApril27ToMay1 ==
    doc.form = "cross" /\ doc.m1 = 3 /\ doc.d1 = 27 /\ doc.m2 = 4 /\ doc.d2 = 1

\* C20: parseDateRange starts at the first month match and the first day
\* number, ends at the second month match (the first when there is no second)
\* and the second day number, and walks forward from the start: it returns the
\* weekdays from the start on, up to the end; "April 27th - May 1st" yields
\* the weekdays from April 27 to May 1, and an end before the start yields the
\* empty sequence.
C20_ForwardWalkFromFirstMatches ==
    Returned =>
        /\ pc = "parsed"
        /\ ListsFirstFive(dates, WeekdaysBetween(StatedStart, StatedEnd))
        /\ StatedEnd < StatedStart => dates = <<>>
        /\ IsApril27ToMay1 =>
                dates = <<MakeDate(2026, 3, 27), MakeDate(2026, 3, 28), MakeDate(2026, 3, 29),
                          MakeDate(2026, 3, 30), MakeDate(2026, 4, 1)>>

\* "April 27th - May 1st.pdf" has yielded five dates, from Monday April 27 to
\* Friday May 1, 2026
C20_Witness ==
    /\ Returned
    /\ IsApril27ToMay1
    /\ Len(dates) = 5
    /\ dates[1] = 481 /\ GetDay(dates[1]) = 1
    /\ dates[5] = 485 /\ GetDay(dates[5]) = 5

\* the x-positions of the fragments that name a weekday, in ascending order
HeaderXs ==
    LET hs == DayHeaders(textItems)
        below(v)   == Cardinality({k \in DOMAIN hs : hs[k].x < v})
        upTo(v)    == Cardinality({k \in DOMAIN hs : hs[k].x <= v})
    IN  [i \in DOMAIN hs |->
            CHOOSE v \in {hs[k].x : k \in DOMAIN hs} : below(v) < i /\ i <= upTo(v)]

\* twice x is at or past the sum of the header positions to the left and at
\* column i (from 1): x is at or past the midpoint
AtOrPastMidpoint(h, i, x) == 2 * x >= h[i - 1] + h[i]

\* C21: with n >= 1 weekday headers at h[1] <= ... <= h[n], a label at x gets
\* the column i - 1 of the largest i with x at or past the midpoint between
\* h[i - 1] and h[i], column 0 when x is left of the first midpoint, and the
\* column is always in 0..n-1.
C21_ColumnByMidpoints ==
    (mode = "layout" /\ pc \in {"extracted", "done"} /\ Len(DayHeaders(textItems)) >= 1) =>
        LET h == HeaderXs
            n == Len(h)
        IN  \A k \in DOMAIN allMatches :
                LET x == allMatches[k].x
                    c == allMatches[k].columnIndex
                    past == {i \in 2..n : AtOrPastMidpoint(h, i, x)}
                IN  /\ c \in 0..(n - 1)
                    /\ past = {} => c = 0
                    /\ past # {} => c + 1 \in past /\ \A i \in past : i <= c + 1

\* under three headers at 100, 205 and 300 a label at 153, just past the
\* midpoint 152.5, has got column 1
C21_Witness ==
    /\ mode = "layout" /\ pc = "extracted"
    /\ Len(DayHeaders(textItems)) = 3
    /\ HeaderXs = <<100, 205, 300>>
    /\ Len(allMatches) = 1
    /\ allMatches[1].x = 153
    /\ allMatches[1].columnIndex = 1

\* the page without the fragments that stand on the time row of a label at
\* height y and that the midpoint rule gives to another column than c
WithoutNeighbours(c, y) ==
    LET cols == ColumnXPositions(textItems)
    IN  SelectSeq(textItems, LAMBDA t :
            ~(OnTimeRow(t, y) /\ GetColumnIndex(cols, t.x) # c))

\* C22 as stated: the time matched for a label in column c is made of
\* fragments of column c only: it is the time that is matched when the
\* fragments of the other columns are taken off the time row.
C22_NoNeighbourInTheTime ==
    (mode = "layout" /\ pc \in {"extracted", "done"}) =>
        \A k \in DOMAIN allMatches :
            LET m    == allMatches[k]
                cols == ColumnXPositions(textItems)
                alone == TimeMatch(CombinedText(WithoutNeighbours(m.columnIndex, m.y),
                                                cols, m.columnIndex, m.y))
            IN  m.startTime = alone.startTime /\ m.endTime = alone.endTime

\* the fragment is the label of an occurrence for which no time was matched
IsUntimedLabel(t) ==
    /\ IsPeriodLabel(t.text)
    /\ \E k \in DOMAIN allMatches :
           /\ allMatches[k].x = t.x /\ allMatches[k].y = t.y
           /\ allMatches[k].periodNum = LabelNumber(t.text)
           /\ (allMatches[k].startTime = <<>> \/ allMatches[k].endTime = <<>>)

\* the page without the labels of the untimed occurrences
WithoutUntimedLabels == SelectSeq(textItems, LAMBDA t : ~IsUntimedLabel(t))

\* C23 as stated: the entries are those that the page yields when the labels
\* of the untimed occurrences are taken off it, also when an untimed
\* occurrence shares its column and period with a timed one.
C23_UntimedLabelBlocksNothing ==
    (mode = "layout" /\ pc = "done" /\ dates # <<>>) =>
        entries = LayoutEntries(ParsePeriodsFromItems(WithoutUntimedLabels), dates)

\* the layout-mode occurrences that survive, in the order in which
\* parsePeriodsFromText returned them: those of a column with a date that are
\* the pick of their column and period and have a time
Survivors ==
    SelectSeq(allMatches, LAMBDA m :
        /\ m.columnIndex + 1 \in DOMAIN dates
        /\ m.startTime # <<>> /\ m.endTime # <<>>
        /\ m = ClaimedPick(m.periodNum, GroupMembers(m.columnIndex, m.periodNum)))

\* C24 as stated: in both pipelines the entries handed to insertMany list the
\* surviving resolved occurrences one for one, in the order in which they were
\* supplied.
C24_EntriesInSuppliedOrder ==
    pc = "done" =>
        /\ (mode = "stream" /\ dates # <<>>) =>
            /\ Len(entries) = Len(WithDate)
            /\ \A i \in DOMAIN entries :
                /\ entries[i].name = WithDate[i].name
                /\ entries[i].startTime =
                       ClaimedInstant(WithDate[i].startTime, dates[WithDate[i].columnIndex + 1])
        /\ (mode = "layout" /\ dates # <<>>) =>
            /\ Len(entries) = Len(Survivors)
            /\ \A i \in DOMAIN entries :
                /\ entries[i].name = Str_Period \o FormatInt(Survivors[i].periodNum)
                /\ entries[i].startTime =
                       ClaimedInstant(Survivors[i].startTime, dates[Survivors[i].columnIndex + 1])

\* how many entries are assembled for a document of the folder: none when it
\* cannot be opened or when its name gives no dates
AssembledFor(f) ==
    IF ~f.opens \/ ParseDateRange(RenderName(f.doc)) = <<>> THEN 0
    ELSE Len(LayoutEntries(ParsePeriodsFromItems(f.items),
                           ParseDateRange(RenderName(f.doc))))

RECURSIVE AssembledUpTo(_)
AssembledUpTo(n) == IF n = 0 THEN 0 ELSE AssembledUpTo(n - 1) + AssembledFor(files[n])

\* C25: processAllPDFs only appends to the store: the record that was there
\* before the run stays first and unchanged, every change of the store puts the
\* entries just assembled after the records it held, a document whose name
\* gives no dates changes nothing, and when the run is over the store holds the
\* records it held before plus the entries assembled for the documents that
\* were processed without error.
C25_BatchOnlyAppends ==
    /\ [](Len(db) >= 1 /\ db[1] = OldRow)
    /\ [][db' # db => /\ dates # <<>>
                      /\ db' = db \o entries'
                      /\ entries' # <<>>]_vars
    /\ [](pc = "allDone" => Len(db) = 1 + AssembledUpTo(Len(files)))

\* a folder of three: a document with one entry, a document whose name gives
\* no dates, the first document again: the store holds the old record and the
\* same entry twice
C25_Witness ==
    /\ pc = "allDone"
    /\ Len(files) = 3
    /\ files[1].opens /\ files[1].doc = Doc_WholeWeek /\ files[1].items # PageOf(<<>>)
    /\ files[2].opens /\ files[2].doc = Doc_NoDates
    /\ files[3] = files[1]
    /\ Len(db) = 3
    /\ db[1] = OldRow
    /\ db[2] = db[3]
    /\ db[2].name = Str_Period \o <<"1">>

\* the fragments that are period labels
LabelFragments == SelectSeq(textItems, LAMBDA t : IsPeriodLabel(t.text))

\* C26: in layout-mode, when no fragment names a weekday, the run goes through
\* without an entry: every label is returned as an occurrence, none with a
\* time, no entry is assembled and the store is left as it was, whatever
\* labels, time fragments and dates there are.
C26_NoHeaderNoEntry ==
    (mode = "layout" /\ DayHeaders(textItems) = <<>>) =>
        /\ pc \in {"extracted", "done"} =>
              /\ Len(allMatches) = Len(LabelFragments)
              /\ \A k \in DOMAIN allMatches : allMatches[k].startTime = <<>>
        /\ pc = "done" => entries = <<>> /\ db = <<OldRow>>

\* a page without headers on which "Period 3" stands twice, each time with a
\* time range below it, has gone through with the five dates of the week and
\* has given no entry
C26_Witness ==
    /\ mode = "layout" /\ pc = "done"
    /\ DayHeaders(textItems) = <<>>
    /\ Len(dates) = 5
    /\ Len(LabelFragments) = 2
    /\ \E i, j \in DOMAIN textItems :
           /\ TimeMatch(textItems[i].text).found
           /\ TimeMatch(textItems[j].text).found
           /\ i # j
    /\ Len(allMatches) = 2
    /\ allMatches[1].periodNum = 3 /\ allMatches[2].periodNum = 3
    /\ entries = <<>>

\* the file paths of the links among the first n whose download is answered,
\* in link order
RECURSIVE PathsOfAnswered(_)
PathsOfAnswered(n) ==
    IF n = 0 THEN <<>>
    ELSE PathsOfAnswered(n - 1)
             \o (IF links[n].ok THEN <<FilePath(links[n])>> ELSE <<>>)

\* C27: downloadAll calls downloadPDF on the extracted links one after the
\* other, each once and in order, whether the earlier downloads failed or not;
\* the list it builds holds the file paths of the links downloaded so far, in
\* link order; it ends, by returning after every link was tried, or by
\* throwing, and it throws only when the page could not be fetched.
C27_EveryLinkTriedOnceInOrder ==
    /\ [](/\ Len(tried) = linkIndex
          /\ \A i \in DOMAIN tried : tried[i] = i
          /\ downloadedFiles = PathsOfAnswered(linkIndex))
    /\ [](pc = "thrown" => ~webPage.fetches)
    /\ [](pc = "returned" => /\ Len(tried) = Len(links)
                             /\ downloadedFiles = PathsOfAnswered(Len(links)))
    /\ <>(pc \in {"returned", "thrown"})

\* three links, the second of which is refused: all three were tried and the
\* paths of the first and the third are returned, "downloads/A.pdf" and
\* "downloads/B- 1.pdf"
C27_Witness ==
    /\ pc = "returned"
    /\ Len(links) = 3
    /\ links[1].ok /\ ~links[2].ok /\ links[3].ok
    /\ tried = <<1, 2, 3>>
    /\ downloadedFiles = << <<"downloads", "/", "A">> \o Str_pdf,
                            <<"downloads", "/", "B", "-", " ", "1">> \o Str_pdf >>


=============================================================================
